---- MODULE Spec2Model ----
(***************************************************************************)
(* A model of stamina's retry engine (src/stamina/_core.py) and of the     *)
(* process-wide configuration it reads (src/stamina/_config.py).           *)
(*                                                                         *)
(* One retry policy object (the result of retry(...) or retry_context(...))*)
(* is used for up to MaxSeqs attempt sequences, one after the other.  A    *)
(* sequence is one call of a decorated function or one iteration of a      *)
(* retry_context object.  stamina drives tenacity's Retrying /             *)
(* AsyncRetrying; the parts of tenacity's iteration protocol the engine    *)
(* relies on (retry predicate, wait, stop, before, before_sleep, reraise)  *)
(* are modelled where stamina configures them.                             *)
(*                                                                         *)
(* Time is counted in ticks.  `log` is the observable history of the       *)
(* current sequence.                                                        *)
(***************************************************************************)
EXTENDS Integers, Sequences, FiniteSets, TLC

\* ------------------------------------------------------------------ bounds

\* Largest integer given as the policy's attempts parameter.
MaxAttempts == 2
\* No attempt beyond this ordinal is started (caps attempts=None policies).
MaxTries == 3
\* Attempt sequences started on the one policy object.
MaxSeqs == 2
\* Ticks one execution of the body takes when it fails.
BodyTime == 1
\* Largest timeout (in ticks) given as the policy's timeout parameter.
MaxTimeout == 3

\* Operations (next, send, throw) a consumer performs on one generator.
MaxOps == 2

\* ------------------------------------------------------------ value domains

\* Optional integers: attempts and timeout are `int | None`.
NoneVal == [some |-> FALSE, val |-> 0]
Some(n) == [some |-> TRUE, val |-> n]

\* Exception classes the body raises.  ValueError and KeyError derive from
\* Exception; Cancelled stands for the BaseException-only classes
\* (KeyboardInterrupt, asyncio.CancelledError, GeneratorExit).
ExcClasses == {"ValueError", "KeyError", "Cancelled"}
ExceptionSubclasses == {"ValueError", "KeyError"}

IsInstance(cls, t) ==
    \/ t = cls
    \/ t = "BaseException"
    \/ t = "Exception" /\ cls \in ExceptionSubclasses

\* The `on` argument: an exception type, a tuple of types, or a predicate
\* callable (here: the predicate that accepts exactly the listed classes).
OnChoices ==
    { [form |-> "type", classes |-> {"ValueError"}],
      [form |-> "tuple", classes |-> {"ValueError", "KeyError"}],
      [form |-> "callable", classes |-> {"KeyError"}] }

\* tenacity's default retry predicate, retry_if_exception_type(Exception).
DefaultRetry == [form |-> "type", classes |-> {"Exception"}]

\* The value a succeeding body returns.
Values == {42}

\* The resolved hooks (CONFIG.on_retry): a scoped hook returns a context
\* manager, a plain hook returns None.  A flaky hook is a plain hook that
\* may raise.
HookList == << "scoped", "flaky", "plain", "scoped" >>

\* Wait parameters of the policy, in ticks.
WaitChoices ==
    { [wait_initial |-> 1, wait_max |-> 2, wait_jitter |-> 1, wait_exp_base |-> 2],
      [wait_initial |-> 0, wait_max |-> 0, wait_jitter |-> 0, wait_exp_base |-> 2] }

AttemptsChoices == {NoneVal} \cup {Some(n) : n \in 0..MaxAttempts}
TimeoutChoices == {NoneVal, Some(BodyTime), Some(MaxTimeout)}

\* set_testing(True, attempts=A, cap=c) values; NoTesting is CONFIG.testing = None.
NoTesting == [on |-> FALSE, attempts |-> 0, cap |-> FALSE]
TestingChoices ==
    { [on |-> TRUE, attempts |-> 1, cap |-> FALSE],
      [on |-> TRUE, attempts |-> 2, cap |-> TRUE] }

Min(a, b) == IF a <= b THEN a ELSE b

RECURSIVE Pow(_, _)
Pow(b, k) == IF k <= 0 THEN 1 ELSE b * Pow(b, k - 1)

RECURSIVE Reverse(_)
Reverse(s) == IF s = <<>> THEN <<>> ELSE Reverse(Tail(s)) \o <<Head(s)>>

\* ------------------------------------------------------------------- state

VARIABLES
    policy,       \* the parameters given to retry(...) / retry_context(...)
    usage,        \* "func": the policy of a decorator, whose with_name() copies are
                  \* iterated (plain, coroutine and generator functions alike);
                  \* "block": a retry_context object, iterated itself
    is_active,    \* CONFIG._is_active
    testing,      \* CONFIG._testing
    on_retry,     \* CONFIG.on_retry, the resolved hooks
    cms_to_exit,  \* _RetryContextIterator._cms_to_exit (shared by with_name copies)
    a_engine,     \* _RetryContextIterator._t_a_retrying of the policy object
    seqno,        \* sequences started so far
    pc,           \* "idle" | "body" | "sleep" | "done"
    mode,         \* "sync" | "async": how the current sequence is iterated
    seq_cfg,      \* CONFIG.is_active and CONFIG.testing as read when the sequence began
    eng,          \* the tenacity Retrying object driving the current sequence
    rcs,          \* its RetryCallState
    now,          \* the monotonic clock, counted from the start of the sequence
    log,          \* events of the current sequence, in order
    result,       \* how the current sequence ended
    gen,          \* a retried generator: its underlying producers, one per
                  \* attempt, and the consumer's operation being served
    CONFIG,       \* the _Config singleton: lock, _on_retry and _get_on_retry
    thr,          \* the threads that read or register hooks: where each one is
    registration, \* the hooks registered last and the hook_factory() calls made for them
    with_stmt,    \* the `with set_testing(...)` statement executed last
    calc          \* what a direct call of the backoff functions returned

vars == << policy, usage, is_active, testing, on_retry, cms_to_exit,
           a_engine, seqno, pc, mode, seq_cfg, eng, rcs, now, log, result, gen,
           CONFIG, thr, registration, with_stmt, calc >>

\* The state of the hook registry and of the direct calls, which the retry
\* engine itself never writes.
regvars == << CONFIG, thr, registration, calc >>

\* The state of the retry engine, which the registry never writes.
enginevars == << policy, usage, is_active, on_retry, cms_to_exit, a_engine, seqno,
                pc, mode, seq_cfg, eng, rcs, now, log, result, gen >>

\* One event of the history: t names it, a, b, c are its integer fields and
\* s is the class of the exception of an "exc" event.
Ev(t, a, b, c) == [t |-> t, a |-> a, b |-> b, c |-> c, s |-> "", x |-> 0]

\* A RetryDetails: retry_num, wait_for, waited_so_far and caused_by (the
\* class in s, the attempt that raised the instance in x).
DetailsEv(retry_num, wait_for, waited_so_far, caused_by) ==
    [t |-> "details", a |-> retry_num, b |-> wait_for, c |-> waited_so_far,
     s |-> caused_by.cls, x |-> caused_by.n]

\* No outcome yet / no exception.
NoExc == [src |-> "none", n |-> 0, cls |-> "none"]

\* Attempt n of the sequence ended with an exception of class cls, `at`
\* ticks after the sequence began; c is 1 if CONFIG.is_active was true then.
ExcEv(n, at, cls, active) ==
    [t |-> "exc", a |-> n, b |-> at, c |-> IF active THEN 1 ELSE 0, s |-> cls, x |-> 0]

NoResult == [kind |-> "none", val |-> 0, exc |-> NoExc]
\* Mutant: the value the body returns is dropped.
ReturnedNone(v) == [kind |-> "ret", val |-> 0, exc |-> NoExc]

Returned(v) == [kind |-> "ret", val |-> v, exc |-> NoExc]
Raised(e) == [kind |-> "raise", val |-> 0, exc |-> e]


\* ------------------------------------------------- tenacity configuration

\* Mutant: the timeout is left out of the stop condition.
_make_stop_attempts_only(attempts, timeout) == [attempts |-> attempts, delay |-> NoneVal]

\* Mutant: without a limit the stop condition is one attempt instead of
\* stop_never.
_make_stop_one_attempt(attempts, timeout) ==
    [attempts |-> IF attempts.some \/ timeout.some THEN attempts ELSE Some(1),
     delay |-> timeout]

\* _make_stop: stop_any(stop_after_attempt(attempts), stop_after_delay(timeout)),
\* each present only if the parameter is not None; stop_never if both are None.
_make_stop(attempts, timeout) == [attempts |-> attempts, delay |-> timeout]

\* _Testing.get_attempts: `non_testing_attempts or self.attempts` takes the
\* override when the user's value is None or 0.
get_attempts(t, non_testing_attempts) ==
    IF t.cap
    THEN Min(t.attempts,
             IF non_testing_attempts.some /\ non_testing_attempts.val # 0
             THEN non_testing_attempts.val
             ELSE t.attempts)
    ELSE t.attempts

\* The stop entry of the tenacity keywords after
\* _apply_maybe_test_mode_to_tenacity_kw(CONFIG.testing).
_apply_maybe_test_mode_to_tenacity_kw(t) ==
    IF ~t.on
    THEN _make_stop(policy.attempts, policy.timeout)
    ELSE [attempts |-> Some(get_attempts(t, policy.attempts)), delay |-> NoneVal]

\* _STOP_NO_RETRY = stop_after_attempt(1)
StopNoRetryAttempts == 1
_STOP_NO_RETRY == [attempts |-> Some(StopNoRetryAttempts), delay |-> NoneVal]

\* Retrying(reraise=True, stop=_STOP_NO_RETRY): tenacity's defaults for the
\* rest (retry on Exception, wait_none, no before / before_sleep callbacks).
NoRetryEngine ==
    [ retry |-> DefaultRetry, stop |-> _STOP_NO_RETRY, hooks |-> FALSE,
      wait |-> FALSE, before |-> FALSE, last_idle_for |-> 0 ]

\* Mutant: the `retry` keyword does not reach tenacity, whose default
\* predicate, any Exception, decides.
ActiveEngineDefaultRetry(t) ==
    [retry |-> DefaultRetry, stop |-> _apply_maybe_test_mode_to_tenacity_kw(t),
     hooks |-> TRUE, wait |-> TRUE, before |-> TRUE, last_idle_for |-> 0]

\* Retrying(before=self._exit_cms, before_sleep=_make_before_sleep(...),
\*          retry=..., stop=..., reraise=True, wait=self._jittered_backoff_for_rcs)
\* with a fresh before_sleep closure (last_idle_for = 0.0).
ActiveEngine(t) ==
    [ retry |-> policy.on, stop |-> _apply_maybe_test_mode_to_tenacity_kw(t),
      hooks |-> TRUE, wait |-> TRUE, before |-> TRUE, last_idle_for |-> 0 ]

\* _RetryContextIterator.__iter__: the tenacity object of a sync sequence.
SyncEngine == IF ~is_active THEN NoRetryEngine ELSE ActiveEngine(testing)

\* _RetryContextIterator.__aiter__: a new AsyncRetrying only if active;
\* otherwise whatever self._t_a_retrying holds.  with_name() copies of the
\* decorator's object always hold _LAZY_NO_ASYNC_RETRY.
AsyncEngine ==
    IF is_active THEN ActiveEngine(testing)
    ELSE IF usage = "block" THEN a_engine ELSE NoRetryEngine

\* ------------------------------------------------------ decision operators

\* retry_if_exception_type(on) for a type or tuple, retry_if_exception(on)
\* for a callable (from_params).
\* A callable that returns a float for every exception (form "backoff_hook")
\* is a predicate like any other: retry_if_exception takes the truth value
\* of what it returns, and 0.0 is false.
Retry(on, cls) ==
    IF on.form = "callable"
    THEN cls \in on.classes
    ELSE IF on.form = "backoff_hook"
    THEN on.backoff # 0
    ELSE \E t \in on.classes : IsInstance(cls, t)

\* Mutant: the attempts limit stops one attempt early.
StopEarly(stop, r) ==
    \/ stop.attempts.some /\ r.attempt_number + 1 >= stop.attempts.val
    \/ stop.delay.some /\ r.outcome_timestamp - r.start_time >= stop.delay.val

\* Mutant: the attempts limit is compared with > instead of >=.
StopLate(stop, r) ==
    \/ stop.attempts.some /\ r.attempt_number > stop.attempts.val
    \/ stop.delay.some /\ r.outcome_timestamp - r.start_time >= stop.delay.val

\* Mutant: the stop policy looks at CONFIG.is_active each time it is asked.
StopIfInactive(stop, r) ==
    \/ ~is_active
    \/ stop.attempts.some /\ r.attempt_number >= stop.attempts.val
    \/ stop.delay.some /\ r.outcome_timestamp - r.start_time >= stop.delay.val

\* stop_after_attempt / stop_after_delay combined by stop_any.
Stop(stop, r) ==
    \/ stop.attempts.some /\ r.attempt_number >= stop.attempts.val
    \/ stop.delay.some /\ r.outcome_timestamp - r.start_time >= stop.delay.val

\* Mutant: reraise=False, the last exception comes wrapped in a RetryError.
reraise_wrapped(exc) == Raised([src |-> "RetryError", n |-> exc.n, cls |-> "RetryError"])

\* reraise=True: when the stop policy stops, tenacity re-raises the exception
\* of the last attempt itself instead of wrapping it in a RetryError.
reraise(exc) == Raised(exc)

\* A failure the retry predicate does not match leaves the iterator as it
\* is (tenacity returns rs.outcome.result(), which raises it).
propagate(exc) == Raised(exc)

\* Mutant: the result is not clamped to max_backoff.
_compute_backoff_unclamped(num, max_backoff, initial, exp_base, max_jitter, draw) ==
    IF testing.on THEN 0
    ELSE LET jitter == IF max_jitter # 0 THEN draw ELSE 0
         IN IF initial = 0 THEN jitter
            ELSE initial * Pow(exp_base, num - 1) + jitter

\* _compute_backoff, with `jitter` the value random.uniform(0, max_jitter)
\* draws: the value it returns when it returns one (ComputeBackoffRaises
\* says when it does not).  For exp_base >= 2 the logarithm test
\*   log(max_backoff / initial, exp_base) < num - 1
\* is max_backoff < initial * exp_base ** (num - 1).
_compute_backoff(num, max_backoff, initial, exp_base, max_jitter, draw) ==
    IF testing.on THEN 0
    ELSE LET jitter == IF max_jitter # 0 THEN draw ELSE 0
         IN IF initial = 0 THEN Min(max_backoff, jitter)
            ELSE IF max_backoff # 0 /\ max_backoff < initial * Pow(exp_base, num - 1)
            THEN max_backoff
            ELSE Min(max_backoff, initial * Pow(exp_base, num - 1) + jitter)

_jittered_backoff_for_rcs(r, draw) ==
    _compute_backoff(r.attempt_number, policy.wait.wait_max, policy.wait.wait_initial,
                     policy.wait.wait_exp_base, policy.wait.wait_jitter, draw)

\* The exception that leaves _compute_backoff, if any.  Without a testing
\* override and with initial and max_backoff both non-zero the function
\* evaluates math.log(max_backoff / initial, exp_base), which raises
\* ValueError for exp_base = 0 (the logarithm of 0) and ZeroDivisionError for
\* exp_base = 1 (a division by the logarithm of 1).
ComputeBackoffRaises(max_backoff, initial, exp_base) ==
    IF testing.on \/ initial = 0 \/ max_backoff = 0 THEN "none"
    ELSE IF exp_base = 0 THEN "ValueError"
    ELSE IF exp_base = 1 THEN "ZeroDivisionError"
    ELSE "none"

\* Mutant: the preview adds the whole jitter ceiling.
_backoff_for_attempt_number_with_jitter(num) ==
    _compute_backoff(num, policy.wait.wait_max, policy.wait.wait_initial,
                     policy.wait.wait_exp_base, policy.wait.wait_jitter,
                     policy.wait.wait_jitter)

\* _backoff_for_attempt_number: _compute_backoff with max_jitter = 0.
_backoff_for_attempt_number(num) ==
    _compute_backoff(num, policy.wait.wait_max, policy.wait.wait_initial,
                     policy.wait.wait_exp_base, 0, 0)

\* The next_wait_fn of an Attempt: None, the policy's
\* _backoff_for_attempt_number, or a function of the caller who constructs
\* the Attempt (the identity).
WaitFns == {"None", "_backoff_for_attempt_number", "identity"}

next_wait_fn(fn, num) ==
    IF fn = "identity" THEN num ELSE _backoff_for_attempt_number(num)

\* Attempt.next_wait: self._next_wait_fn(attempt_number + 1), or 0.0
\* without a wait function.
next_wait(a) ==
    IF a._next_wait_fn # "None" THEN next_wait_fn(a._next_wait_fn, a.num + 1) ELSE 0

\* The Attempt the running sequence has yielded last: Attempt(r, None) from
\* the inactive branch of __iter__, Attempt(r, self._backoff_for_attempt_number)
\* from its active branch and from __anext__.
Attempt ==
    [ num |-> rcs.attempt_number,
      _next_wait_fn |-> IF mode = "sync" /\ ~seq_cfg.is_active
                        THEN "None" ELSE "_backoff_for_attempt_number" ]

\* --------------------------------------------------------------- the hooks

\* The loop of before_sleep over config.on_retry from hook i on, for the
\* RetryDetails of retry rn in sequence sq: the events it produces.  A hook
\* that raises ends the loop; `fails` says whether the flaky hooks raise.
RECURSIVE RunHooks(_, _, _, _, _)
RunHooks(hooks, i, sq, rn, fails) ==
    IF i > Len(hooks) THEN <<>>
    ELSE IF hooks[i] = "flaky" /\ fails
    THEN << Ev("hook", i, rn, 0), Ev("hookraise", i, rn, 0) >>
    ELSE << Ev("hook", i, rn, 0) >>
         \o (IF hooks[i] = "scoped" THEN << Ev("enter", sq, rn, i) >> ELSE <<>>)
         \o RunHooks(hooks, i + 1, sq, rn, fails)

IsEnter(e) == e.t = "enter"
IsHookRaise(e) == e.t = "hookraise"

\* hook_cms.append(maybe_cm) for each context manager entered.
RECURSIVE Handles(_)
Handles(evs) ==
    IF evs = <<>> THEN <<>>
    ELSE (IF IsEnter(Head(evs))
          THEN << [seq |-> Head(evs).a, retry |-> Head(evs).b, hook |-> Head(evs).c] >>
          ELSE <<>>) \o Handles(Tail(evs))

\* _exit_cms: cm.__exit__(None, None, None) for cm in reversed(self._cms_to_exit).
RECURSIVE ExitAll(_)
ExitAll(cms) ==
    IF cms = <<>> THEN <<>>
    ELSE << Ev("exit", Head(cms).seq, Head(cms).retry, Head(cms).hook) >> \o ExitAll(Tail(cms))

_exit_cms(cms) == ExitAll(Reverse(cms))

\* tenacity calls `before` ahead of every attempt, the first included.
Before(e, cms) == IF e.before THEN _exit_cms(cms) ELSE <<>>

\* Mutant: retry_num counts the retries from zero.
before_sleep_from_zero(e, r, sq, fails) ==
    LET wait_for == r.idle_for - e.last_idle_for
    IN << DetailsEv(r.attempt_number - 1, wait_for, r.idle_for - wait_for, r.outcome) >>
       \o RunHooks(on_retry, 1, sq, r.attempt_number, fails)

\* Mutant: the loop over the hooks misses the first hook.
before_sleep_skips_first(e, r, sq, fails) ==
    LET wait_for == r.idle_for - e.last_idle_for
    IN << DetailsEv(r.attempt_number, wait_for, r.idle_for - wait_for, r.outcome) >>
       \o RunHooks(on_retry, 2, sq, r.attempt_number, fails)

\* before_sleep(rcs): one RetryDetails, then the hooks.
before_sleep(e, r, sq, fails) ==
    LET wait_for == r.idle_for - e.last_idle_for
    IN << DetailsEv(r.attempt_number, wait_for, r.idle_for - wait_for, r.outcome) >>
       \o RunHooks(on_retry, 1, sq, r.attempt_number, fails)

\* Mutant: the callback is registered twice and the pipeline runs twice.
BeforeSleepTwice(e, r, sq, fails) ==
    IF e.hooks THEN before_sleep(e, r, sq, fails) \o before_sleep(e, r, sq, fails)
    ELSE <<>>

BeforeSleep(e, r, sq, fails) == IF e.hooks THEN before_sleep(e, r, sq, fails) ELSE <<>>

\* Mutant: an exception raised by a hook is swallowed by the engine.
HookSwallowed(evs) == FALSE

\* Whether a hook raised in this run of the pipeline.
HookRaised(evs) == \E i \in 1..Len(evs) : IsHookRaise(evs[i])

\* The object whose _t_a_retrying field the running async sequence uses.
StoreBack(e) == IF usage = "block" /\ mode = "async" THEN e ELSE a_engine

\* ------------------------------------------------- retried generators

\* What the body raises when a generator function is decorated; GeneratorExit
\* is what close() / aclose() raises at the wrapper's pending yield.
GenExcClasses == {"ValueError", "KeyError", "GeneratorExit"}

\* `on` for generators: a type, BaseException, and a predicate that accepts
\* every exception.
GenOnChoices ==
    { [form |-> "type", classes |-> {"ValueError"}],
      [form |-> "type", classes |-> {"BaseException"}],
      [form |-> "callable", classes |-> GenExcClasses] }

\* Values the consumer sends; 0 stands for None.
SendValues == {0, 7}

\* The p-th value an underlying producer yields of its own.
ValueAt(p) == 41 + p

IsGen == usage = "gen"

NoOp == [kind |-> "none", val |-> 0, exc |-> NoExc, at |-> 0]
NoGen == [prods |-> <<>>, op |-> NoOp, ops |-> 0]

\* wrapped(*args, **kw): a new underlying producer, not yet resumed.
NewProducer == [st |-> "run", pos |-> 0, closes |-> 0]

\* The first next() of the consumer starts the wrapper and, in the first
\* attempt, the first producer.
GenStart(g) ==
    IF IsGen
    THEN [prods |-> << NewProducer >>,
          op |-> [kind |-> "next", val |-> 0, exc |-> NoExc, at |-> 1],
          ops |-> 1]
    ELSE g

\* Mutant: the producer is created once, outside the retry loop.
GenRestartKeeps(g) == g

\* A further attempt: the for loop runs its body again.
GenRestart(g) == IF IsGen THEN [g EXCEPT !.prods = Append(@, NewProducer)] ELSE g

\* The current producer has ended (it returned or raised, or it was closed
\* and GeneratorExit leaves the wrapper's body); async_gen_inner's
\* `finally: await agen.aclose()` runs on the way out.
GenEnd(g, md) ==
    IF IsGen
    THEN [g EXCEPT !.prods[Len(g.prods)] =
               [@ EXCEPT !.st = "done",
                         !.closes = @ + (IF md = "async" THEN 1 ELSE 0)]]
    ELSE g

\* close() / aclose() arrived in this attempt: the producer is closed and
\* GeneratorExit is on its way out of the wrapper's body.
ClosePending(g, r) == IsGen /\ g.op.kind = "close" /\ g.op.at = r.attempt_number

\* The exception object the body raises: the one the consumer threw in (or
\* the GeneratorExit of its close) if the producer of this attempt got it
\* and an exception of that class leaves the body, else a new one.
RaisedObject(g, r, cls) ==
    IF IsGen /\ g.op.kind \in {"throw", "close"} /\ g.op.at = r.attempt_number
             /\ g.op.exc.cls = cls
    THEN g.op.exc
    ELSE [src |-> "body", n |-> r.attempt_number, cls |-> cls]

\* Mutant: the wrapper iterates over the producer and drops what is sent.
ForwardNothing(v) == [call |-> "next", val |-> 0]

\* `yield from` and `if to_send is None: __anext__() else: asend(to_send)`:
\* what the producer is resumed with.
Forward(v) == IF v = 0 THEN [call |-> "next", val |-> 0] ELSE [call |-> "send", val |-> v]

\* Mutant: the wrapper throws a new exception of the same class.
ForwardThrowCopy(exc) == [exc EXCEPT !.src = "wrapper"]

\* inner.throw(...) of `yield from` and agen.athrow(thrown): the object the
\* producer gets.
ForwardThrow(exc) == exc

\* `yield item`: what the consumer receives.
Deliver(item) == item

\* ------------------------------------------------------ the hook registry

\* Threads that call get_on_retry_hooks() / set_on_retry_hooks().
NumThreads == 2
Threads == 1..NumThreads

\* A plain hook, a RetryHookFactory, and the hook that calling a factory's
\* hook_factory() returns.
Hook(id) == [kind |-> "hook", id |-> id, made |-> FALSE]
Factory(id) == [kind |-> "factory", id |-> id, made |-> FALSE]
hook_factory(f) == [kind |-> "hook", id |-> f.id, made |-> TRUE]

\* CONFIG._on_retry is None or a tuple.
NoHooks == [some |-> FALSE, val |-> <<>>]

\* get_default_hooks: PrometheusOnRetryHook if prometheus_client can be
\* imported, then StructlogOnRetryHook if structlog can be imported and
\* LoggingOnRetryHook if not.
get_default_hooks(prometheus, structlog) ==
    (IF prometheus THEN << Factory("PrometheusOnRetryHook") >> ELSE <<>>)
    \o (IF structlog THEN << Factory("StructlogOnRetryHook") >>
        ELSE << Factory("LoggingOnRetryHook") >>)

DefaultHooks == { get_default_hooks(p, sl) : p \in BOOLEAN, sl \in BOOLEAN }

\* What set_on_retry_hooks is called with: None, an empty iterable, hooks
\* and factories.
HooksChoices ==
    { NoHooks,
      Some(<<>>),
      Some(<< Hook("hook"), Factory("init") >>),
      Some(<< Factory("init"), Hook("hook"), Factory("init2") >>) }

\* Mutant: the factories are left in the tuple.
init_hooks_keeps_factories(maybe_delayed) == maybe_delayed

\* init_hooks: each RetryHookFactory is replaced by what its hook_factory()
\* returns, everything else is left alone.
init_hooks(maybe_delayed) ==
    [ i \in 1..Len(maybe_delayed) |->
        IF maybe_delayed[i].kind = "factory"
        THEN hook_factory(maybe_delayed[i])
        ELSE maybe_delayed[i] ]

\* The positions of maybe_delayed, from i on, whose hook_factory()
\* init_hooks calls.
RECURSIVE FactoryCalls(_, _)
FactoryCalls(maybe_delayed, i) ==
    IF i > Len(maybe_delayed) THEN <<>>
    ELSE (IF maybe_delayed[i].kind = "factory" THEN << i >> ELSE <<>>)
         \o FactoryCalls(maybe_delayed, i + 1)

\* Mutant: the test under the lock is left out.
NeedsInitAlways(c) == TRUE

\* `self._get_on_retry == self._init_on_first_retry`
NeedsInit(c) == c._get_on_retry = "_init_on_first_retry"

\* A thread outside any registry call.
IdleThread == [pc |-> "idle", acc |-> "", ret |-> NoHooks, stale |-> FALSE]

\* No `with set_testing(...)` statement has been executed since the last
\* plain call of set_testing.
NoWith == [prior |-> NoTesting, given |-> NoTesting, raised |-> "none",
           body_ran |-> FALSE]

\* No direct call of the backoff functions has been made.
NoCalc == [call |-> "none", raises |-> "none", preview |-> 0, jittered |-> 0,
           draw |-> 0, fn |-> "None", next_wait |-> 0]

\* The hooks of HookList, as registered by set_on_retry_hooks.
RegisteredHookList == [ i \in 1..Len(HookList) |-> Hook(HookList[i]) ]

\* The registry while the retry engine is looked at: HookList has been
\* registered and resolved, and no thread is inside a registry call.
RegistryResolved ==
    /\ CONFIG = [lock |-> 0, _on_retry |-> Some(RegisteredHookList),
                 _get_on_retry |-> "lambda"]
    /\ thr = [t \in Threads |-> IdleThread]
    /\ registration = [hooks |-> Some(RegisteredHookList), calls |-> <<>>]
    /\ with_stmt = NoWith
    /\ calc = NoCalc

\* ------------------------------------------------------------------ actions

Init ==
    /\ policy \in [ on : OnChoices, attempts : AttemptsChoices,
                    timeout : TimeoutChoices, wait : WaitChoices ]
    /\ usage \in {"func", "block"}
    /\ is_active = TRUE
    /\ testing = NoTesting
    /\ on_retry = HookList
    /\ cms_to_exit = <<>>
    /\ a_engine = NoRetryEngine
    /\ seqno = 0
    /\ pc = "idle"
    /\ mode = "sync"
    /\ seq_cfg = [is_active |-> TRUE, testing |-> NoTesting]
    /\ eng = NoRetryEngine
    /\ rcs = [attempt_number |-> 0, idle_for |-> 0, start_time |-> 0,
              outcome_timestamp |-> 0, upcoming_sleep |-> 0, outcome |-> NoExc]
    /\ now = 0
    /\ log = <<>>
    /\ result = NoResult
    /\ gen = NoGen
    /\ RegistryResolved

\* A sequence begins: the first next() of __iter__ (a call of sync_inner /
\* a `for` over retry_context) or __aiter__ followed by the first __anext__.
Start(m) ==
    /\ pc = "idle"
    /\ LET e == IF m = "sync" THEN SyncEngine ELSE AsyncEngine
       IN /\ eng' = e
          /\ a_engine' = IF usage = "block" /\ m = "async" THEN e ELSE a_engine
          /\ log' = Before(e, cms_to_exit) \o << Ev("attempt", 1, 0, 0) >>
    /\ mode' = m
    /\ seqno' = seqno + 1
    /\ seq_cfg' = [is_active |-> is_active, testing |-> testing]
    /\ now' = 0
    /\ rcs' = [attempt_number |-> 1, idle_for |-> 0, start_time |-> now',
               outcome_timestamp |-> now', upcoming_sleep |-> 0, outcome |-> NoExc]
    /\ result' = NoResult
    /\ pc' = "body"
    /\ gen' = GenStart(gen)
    /\ UNCHANGED << regvars, with_stmt >>
    /\ UNCHANGED << policy, usage, is_active, testing, on_retry, cms_to_exit >>

\* The body ends normally: `return wrapped(...)` inside `with attempt`, or
\* the block falls off its end and the iterator is exhausted.
BodyReturns(v) ==
    /\ pc = "body"
    /\ ~ClosePending(gen, rcs)
    /\ (IsGen /\ mode = "async") => v = 0
    /\ gen' = GenEnd(gen, mode)
    /\ log' = Append(log, Ev("ret", rcs.attempt_number, v, 0))
    /\ result' = Returned(v)
    /\ pc' = "done"
    /\ UNCHANGED << regvars, with_stmt >>
    /\ UNCHANGED << policy, usage, is_active, testing, on_retry,
                    cms_to_exit, a_engine, seqno, mode, seq_cfg, eng, rcs, now >>

\* The body raises an exception of class cls.  AttemptManager.__exit__
\* records it and the iterator is resumed: retry predicate, wait, stop, and,
\* if a retry is scheduled, before_sleep and the start of the wait.
BodyRaises(cls, draw, fails) ==
    /\ pc = "body"
    /\ (cls = "GeneratorExit") <=> ClosePending(gen, rcs)
    /\ gen' = GenEnd(gen, mode)
    /\ LET exc == RaisedObject(gen, rcs, cls)
           r1 == [rcs EXCEPT !.outcome_timestamp = now + BodyTime, !.outcome = exc]
           failed == Append(log, [ExcEv(rcs.attempt_number,
                                       r1.outcome_timestamp - r1.start_time, cls, is_active)
                                     EXCEPT !.x = IF exc.src = "consumer" THEN exc.n ELSE 0])
           sleep == IF eng.wait THEN _jittered_backoff_for_rcs(r1, draw) ELSE 0
           r2 == [r1 EXCEPT !.upcoming_sleep = sleep]
           r3 == [r2 EXCEPT !.idle_for = @ + sleep]
           hooked == BeforeSleep(eng, r3, seqno, fails)
           e2 == [eng EXCEPT !.last_idle_for = IF eng.hooks THEN r3.idle_for ELSE @]
       IN /\ now' = now + BodyTime
          /\ IF ~Retry(eng.retry, cls)
             THEN /\ result' = propagate(exc)
                  /\ pc' = "done"
                  /\ log' = failed
                  /\ rcs' = r1
                  /\ UNCHANGED << eng, a_engine, cms_to_exit >>
             ELSE IF Stop(eng.stop, r2)
             THEN /\ result' = reraise(exc)
                  /\ pc' = "done"
                  /\ log' = failed
                  /\ rcs' = r2
                  /\ UNCHANGED << eng, a_engine, cms_to_exit >>
             ELSE /\ rcs.attempt_number < MaxTries
                  /\ rcs' = r3
                  /\ cms_to_exit' = cms_to_exit \o Handles(hooked)
                  /\ IF HookRaised(hooked)
                     THEN /\ result' = Raised([src |-> "hook", n |-> rcs.attempt_number,
                                               cls |-> "HookError"])
                          /\ pc' = "done"
                          /\ log' = failed \o hooked
                          /\ UNCHANGED << eng, a_engine >>
                     ELSE /\ result' = result
                          /\ pc' = "sleep"
                          /\ log' = (failed \o hooked)
                                    \o << Ev("wait_begin", rcs.attempt_number, sleep, 0) >>
                          /\ eng' = e2
                          /\ a_engine' = StoreBack(e2)
    /\ UNCHANGED << regvars, with_stmt >>
    /\ UNCHANGED << policy, usage, is_active, testing, on_retry,
                    seqno, mode, seq_cfg >>

\* The wait ends: `before` runs (_exit_cms) and the next Attempt is produced.
SleepDone ==
    /\ pc = "sleep"
    /\ now' = now + rcs.upcoming_sleep
    /\ rcs' = [rcs EXCEPT !.attempt_number = @ + 1, !.outcome = NoExc]
    /\ gen' = GenRestart(gen)
    /\ log' = (Append(log, Ev("wait_end", rcs.attempt_number, rcs.upcoming_sleep, 0))
               \o Before(eng, cms_to_exit))
              \o << Ev("attempt", rcs.attempt_number + 1, 0, 0) >>
    /\ pc' = "body"
    /\ UNCHANGED << regvars, with_stmt >>
    /\ UNCHANGED << policy, usage, is_active, testing, on_retry,
                    cms_to_exit, a_engine, seqno, mode, seq_cfg, eng, result >>

\* The wait is interrupted: KeyboardInterrupt out of time.sleep, or a
\* cancellation delivered at the await in _smart_sleep.
SleepInterrupted ==
    /\ pc = "sleep"
    /\ result' = Raised([src |-> "sleep", n |-> rcs.attempt_number, cls |-> "Cancelled"])
    /\ log' = Append(log, Ev("interrupt", rcs.attempt_number, 0, 0))
    /\ pc' = "done"
    /\ gen' = gen
    /\ UNCHANGED << regvars, with_stmt >>
    /\ UNCHANGED << policy, usage, is_active, testing, on_retry,
                    cms_to_exit, a_engine, seqno, mode, seq_cfg, eng, rcs, now >>

\* The retrying call is over: its caller has the outcome and goes on.
CallEnds ==
    /\ pc = "done"
    /\ pc' = "idle"
    /\ log' = <<>>
    /\ gen' = NoGen
    /\ result' = NoResult
    /\ now' = 0
    /\ eng' = NoRetryEngine
    /\ rcs' = [attempt_number |-> 0, idle_for |-> 0, start_time |-> 0,
               outcome_timestamp |-> 0, upcoming_sleep |-> 0, outcome |-> NoExc]
    /\ UNCHANGED << regvars, with_stmt >>
    /\ UNCHANGED << policy, usage, is_active, testing, on_retry, cms_to_exit,
                    a_engine, seqno, mode, seq_cfg >>

\* set_active(b), from another thread or between two calls.
set_active(b) ==
    /\ pc \in {"idle", "sleep"}
    /\ b # is_active
    /\ is_active' = b
    /\ UNCHANGED << regvars, with_stmt >>
    /\ UNCHANGED << policy, usage, testing, on_retry, cms_to_exit, a_engine, seqno,
                    pc, mode, seq_cfg, eng, rcs, now, log, result, gen >>

\* set_testing(...), from the body, another thread or between two calls.
set_testing(t) ==
    /\ pc \in {"idle", "body"}
    /\ t # testing
    /\ testing' = t
    /\ with_stmt' = NoWith
    /\ UNCHANGED regvars
    /\ UNCHANGED << policy, usage, is_active, on_retry, cms_to_exit, a_engine, seqno,
                    pc, mode, seq_cfg, eng, rcs, now, log, result, gen >>

\* What happens within and around one sequence.
Step ==
    \/ \E v \in Values : BodyReturns(v)
    \/ \E cls \in ExcClasses, draw \in 0..policy.wait.wait_jitter, fails \in BOOLEAN :
          BodyRaises(cls, draw, fails)
    \/ SleepDone
    \/ SleepInterrupted
    \/ CallEnds
    \/ \E b \in BOOLEAN : set_active(b)
    \/ \E t \in TestingChoices \cup {NoTesting} : set_testing(t)

\* The policy object is used for up to MaxSeqs sequences.
Next ==
    \/ \E m \in {"sync", "async"} : seqno < MaxSeqs /\ Start(m)
    \/ Step

Spec == Init /\ [][Next]_vars

\* The first use of a policy object: one sequence, under any configuration
\* set before or while it runs.
NextCall ==
    \/ \E m \in {"sync", "async"} : seqno = 0 /\ Start(m)
    \/ Step

SpecCall == Init /\ [][NextCall]_vars

\* --------------------------------- a body that fails at every attempt

\* The body raises an exception the policy's `on` matches, and no hook raises.
FailingBody ==
    \E cls \in ExcClasses, draw \in 0..policy.wait.wait_jitter :
        /\ Retry(policy.on, cls)
        /\ BodyRaises(cls, draw, FALSE)

\* The policy retries on one exception type.
InitAlwaysFails == Init /\ policy.on.form = "type"

\* The first use of a policy around a body that fails every time, with
\* waits that are left to run out.
NextAlwaysFails ==
    \/ \E m \in {"sync", "async"} : seqno = 0 /\ Start(m)
    \/ FailingBody
    \/ SleepDone
    \/ CallEnds
    \/ \E b \in BOOLEAN : set_active(b)
    \/ \E t \in TestingChoices \cup {NoTesting} : set_testing(t)

\* The body is run to its end each time the iterator hands out an Attempt
\* (`with attempt:` directly follows the `for`), and time.sleep /
\* the awaited sleep returns once the wait is over: neither step can be
\* put off forever.
SpecAlwaysFails ==
    InitAlwaysFails /\ [][NextAlwaysFails]_vars /\ WF_vars(FailingBody) /\ WF_vars(SleepDone)

\* ------------------------------------- predicates that match everything

\* `on=BaseException`, or a predicate callable that accepts every exception.
MatchAllChoices ==
    { [form |-> "type", classes |-> {"BaseException"}],
      [form |-> "callable", classes |-> ExcClasses] }

\* The first use of a policy whose predicate matches every exception.
InitMatchAll ==
    /\ policy \in [ on : MatchAllChoices, attempts : AttemptsChoices,
                    timeout : TimeoutChoices, wait : WaitChoices ]
    /\ usage \in {"func", "block"}
    /\ is_active = TRUE
    /\ testing = NoTesting
    /\ on_retry = HookList
    /\ cms_to_exit = <<>>
    /\ a_engine = NoRetryEngine
    /\ seqno = 0
    /\ pc = "idle"
    /\ mode = "sync"
    /\ seq_cfg = [is_active |-> TRUE, testing |-> NoTesting]
    /\ eng = NoRetryEngine
    /\ rcs = [attempt_number |-> 0, idle_for |-> 0, start_time |-> 0,
              outcome_timestamp |-> 0, upcoming_sleep |-> 0, outcome |-> NoExc]
    /\ now = 0
    /\ log = <<>>
    /\ result = NoResult
    /\ gen = NoGen
    /\ RegistryResolved

SpecMatchAll == InitMatchAll /\ [][NextCall]_vars

\* ------------------------------------- callables that return a backoff

\* `on=lambda exc: 0.0` and `on=lambda exc: 2.0`: callables that return a
\* float, meant as the backoff, for every exception.
BackoffHookChoices ==
    { [form |-> "backoff_hook", classes |-> ExcClasses, backoff |-> 0],
      [form |-> "backoff_hook", classes |-> ExcClasses, backoff |-> 2] }

\* The first use of a policy whose `on` is such a callable.
InitBackoffHook ==
    /\ policy \in [ on : BackoffHookChoices, attempts : AttemptsChoices,
                    timeout : {NoneVal}, wait : WaitChoices ]
    /\ usage \in {"func", "block"}
    /\ is_active = TRUE
    /\ testing = NoTesting
    /\ on_retry = HookList
    /\ cms_to_exit = <<>>
    /\ a_engine = NoRetryEngine
    /\ seqno = 0
    /\ pc = "idle"
    /\ mode = "sync"
    /\ seq_cfg = [is_active |-> TRUE, testing |-> NoTesting]
    /\ eng = NoRetryEngine
    /\ rcs = [attempt_number |-> 0, idle_for |-> 0, start_time |-> 0,
              outcome_timestamp |-> 0, upcoming_sleep |-> 0, outcome |-> NoExc]
    /\ now = 0
    /\ log = <<>>
    /\ result = NoResult
    /\ gen = NoGen
    /\ RegistryResolved

SpecBackoffHook == InitBackoffHook /\ [][NextCall]_vars

\* ----------------------------------------- a decorated generator function

\* retry(...) applied to a generator function (sync_gen_inner) or to an
\* async generator function (async_gen_inner).
InitGen ==
    /\ policy \in [ on : GenOnChoices, attempts : AttemptsChoices,
                    timeout : {NoneVal},
                    wait : { w \in WaitChoices : w.wait_max = 0 } ]
    /\ usage = "gen"
    /\ is_active = TRUE
    /\ testing = NoTesting
    /\ on_retry = HookList
    /\ cms_to_exit = <<>>
    /\ a_engine = NoRetryEngine
    /\ seqno = 0
    /\ pc = "idle"
    /\ mode = "sync"
    /\ seq_cfg = [is_active |-> TRUE, testing |-> NoTesting]
    /\ eng = NoRetryEngine
    /\ rcs = [attempt_number |-> 0, idle_for |-> 0, start_time |-> 0,
              outcome_timestamp |-> 0, upcoming_sleep |-> 0, outcome |-> NoExc]
    /\ now = 0
    /\ log = <<>>
    /\ result = NoResult
    /\ gen = NoGen
    /\ RegistryResolved

\* The current producer yields: its next own value, or (echo) the value it
\* has just been sent.  The wrapper yields the item to the consumer, unless
\* the consumer is closing it: a generator that yields while it is being
\* closed makes close() / aclose() raise RuntimeError and stays suspended.
ProducerYields(echo) ==
    /\ pc = "body"
    /\ IsGen
    /\ ~ClosePending(gen, rcs)
    /\ LET p == Len(gen.prods)
           pr == gen.prods[p]
           n == rcs.attempt_number
           sent == gen.op.kind = "send" /\ gen.op.at = n
           v == IF echo /\ sent THEN gen.op.val ELSE ValueAt(pr.pos + 1)
       IN /\ echo => sent
          /\ gen' = [gen EXCEPT !.prods[p] = [@ EXCEPT !.st = "susp", !.pos = @ + 1]]
          /\ IF gen.op.kind = "close"
             THEN /\ log' = log \o << Ev("yield", n, v, pr.pos + 1),
                                      Ev("ignored_exit", n, v, gen.ops) >>
                  /\ result' = Raised([src |-> "wrapper", n |-> n, cls |-> "RuntimeError"])
                  /\ pc' = "done"
             ELSE /\ log' = log \o << Ev("yield", n, v, pr.pos + 1),
                                      [Ev("got", n, Deliver(v), gen.ops)
                                          EXCEPT !.s = gen.op.kind] >>
                  /\ result' = result
                  /\ pc' = "yielded"
    /\ UNCHANGED << regvars, with_stmt >>
    /\ UNCHANGED << policy, usage, is_active, testing, on_retry, cms_to_exit,
                    a_engine, seqno, mode, seq_cfg, eng, rcs, now >>

\* The consumer resumes the wrapper at its pending yield: next(g) (v = 0)
\* or g.send(v); the wrapper resumes the current producer.
Send(v) ==
    /\ pc = "yielded"
    /\ gen.ops < MaxOps
    /\ LET n == rcs.attempt_number
           f == Forward(v)
       IN /\ log' = log \o << Ev("send", n, v, gen.ops + 1),
                               [Ev("recv", n, f.val, gen.ops + 1) EXCEPT !.s = f.call] >>
          /\ gen' = [gen EXCEPT !.ops = @ + 1,
                                !.op = [kind |-> IF v = 0 THEN "next" ELSE "send",
                                        val |-> f.val, exc |-> NoExc, at |-> n],
                                !.prods[Len(gen.prods)].st = "run"]
    /\ pc' = "body"
    /\ UNCHANGED << regvars, with_stmt >>
    /\ UNCHANGED << policy, usage, is_active, testing, on_retry, cms_to_exit,
                    a_engine, seqno, mode, seq_cfg, eng, rcs, now, result >>

\* g.throw(exc) / g.athrow(exc): the wrapper throws it into the producer.
Throw(cls) ==
    /\ pc = "yielded"
    /\ gen.ops < MaxOps
    /\ LET n == rcs.attempt_number
           exc == [src |-> "consumer", n |-> gen.ops + 1, cls |-> cls]
           got == ForwardThrow(exc)
       IN /\ log' = log \o << [Ev("throw", n, exc.n, gen.ops + 1) EXCEPT !.s = exc.cls],
                               [Ev("thrown_in", n, got.n, gen.ops + 1)
                                   EXCEPT !.s = got.cls, !.x = IF got = exc THEN 1 ELSE 0] >>
          /\ gen' = [gen EXCEPT !.ops = @ + 1,
                                !.op = [kind |-> "throw", val |-> 0, exc |-> got, at |-> n],
                                !.prods[Len(gen.prods)].st = "run"]
    /\ pc' = "body"
    /\ UNCHANGED << regvars, with_stmt >>
    /\ UNCHANGED << policy, usage, is_active, testing, on_retry, cms_to_exit,
                    a_engine, seqno, mode, seq_cfg, eng, rcs, now, result >>

\* g.close() / g.aclose(): GeneratorExit is raised at the wrapper's pending
\* yield.  `yield from` calls close() on the producer; async_gen_inner's
\* `except GeneratorExit` awaits agen.aclose().  Then GeneratorExit goes on,
\* out of the body of the attempt (BodyRaises).
Close ==
    /\ pc = "yielded"
    /\ LET n == rcs.attempt_number
           p == Len(gen.prods)
       IN /\ log' = log \o << Ev("close", n, 0, gen.ops + 1), Ev("closed", n, p, 0) >>
          /\ gen' = [gen EXCEPT !.ops = @ + 1,
                                !.op = [kind |-> "close", val |-> 0, at |-> n,
                                        exc |-> [src |-> "close", n |-> gen.ops + 1,
                                                 cls |-> "GeneratorExit"]],
                                !.prods[p] = [@ EXCEPT !.st = "done", !.closes = @ + 1]]
    /\ pc' = "body"
    /\ UNCHANGED << regvars, with_stmt >>
    /\ UNCHANGED << policy, usage, is_active, testing, on_retry, cms_to_exit,
                    a_engine, seqno, mode, seq_cfg, eng, rcs, now, result >>

\* One use of a decorated generator function by one consumer.
NextGen ==
    \/ \E m \in {"sync", "async"} : seqno = 0 /\ Start(m)
    \/ \E echo \in BOOLEAN : ProducerYields(echo)
    \/ \E v \in SendValues : Send(v)
    \/ \E cls \in {"ValueError", "KeyError"} : Throw(cls)
    \/ Close
    \/ \E v \in Values \cup {0} : BodyReturns(v)
    \/ \E cls \in GenExcClasses, draw \in 0..policy.wait.wait_jitter, fails \in BOOLEAN :
          BodyRaises(cls, draw, fails)
    \/ SleepDone
    \/ SleepInterrupted
    \/ CallEnds

SpecGen == InitGen /\ [][NextGen]_vars


\* ------------------------------------------------- the Config singleton

\* CONFIG = _Config(Lock()): no hooks registered (None stands for the
\* defaults), nothing resolved, no testing override; no retrying call runs.
InitConfig ==
    /\ policy = [on |-> [form |-> "type", classes |-> {"ValueError"}],
                 attempts |-> Some(MaxAttempts), timeout |-> NoneVal,
                 wait |-> [wait_initial |-> 0, wait_max |-> 0, wait_jitter |-> 0,
                           wait_exp_base |-> 2]]
    /\ usage = "func"
    /\ is_active = TRUE
    /\ testing = NoTesting
    /\ on_retry = HookList
    /\ cms_to_exit = <<>>
    /\ a_engine = NoRetryEngine
    /\ seqno = 0
    /\ pc = "idle"
    /\ mode = "sync"
    /\ seq_cfg = [is_active |-> TRUE, testing |-> NoTesting]
    /\ eng = NoRetryEngine
    /\ rcs = [attempt_number |-> 0, idle_for |-> 0, start_time |-> 0,
              outcome_timestamp |-> 0, upcoming_sleep |-> 0, outcome |-> NoExc]
    /\ now = 0
    /\ log = <<>>
    /\ result = NoResult
    /\ gen = NoGen
    /\ CONFIG = [lock |-> 0, _on_retry |-> NoHooks,
                 _get_on_retry |-> "_init_on_first_retry"]
    /\ thr = [t \in Threads |-> IdleThread]
    /\ registration = [hooks |-> NoHooks, calls |-> <<>>]
    /\ with_stmt = NoWith
    /\ calc = NoCalc

\* Thread t reads CONFIG.on_retry (get_on_retry_hooks, or before_sleep at a
\* scheduled retry): the property reads self._get_on_retry, without the lock.
on_retry_getter(t) ==
    /\ thr[t].pc = "idle"
    /\ thr' = [thr EXCEPT ![t] = [IdleThread EXCEPT !.pc = "call",
                                                    !.acc = CONFIG._get_on_retry]]
    /\ UNCHANGED << CONFIG, registration, calc, with_stmt, testing, enginevars >>

\* ... and calls what it has read.  `lambda: self._on_retry` reads the tuple
\* without the lock.
call_lambda(t) ==
    /\ thr[t].pc = "call"
    /\ thr[t].acc = "lambda"
    /\ thr' = [thr EXCEPT ![t].pc = "returned", ![t].ret = CONFIG._on_retry]
    /\ UNCHANGED << CONFIG, registration, calc, with_stmt, testing, enginevars >>

\* `with self.lock` is entered: by _init_on_first_retry, or by the accessor
\* a hook factory has called (a thread at "in_factory").  threading.Lock is
\* not reentrant: the lock must be free, whoever holds it.
lock_acquire(t) ==
    /\ thr[t].pc \in {"call", "in_factory"}
    /\ thr[t].pc = "call" => thr[t].acc = "_init_on_first_retry"
    /\ CONFIG.lock = 0
    /\ CONFIG' = [CONFIG EXCEPT !.lock = t]
    /\ thr' = [thr EXCEPT ![t].pc = IF thr[t].pc = "call" THEN "locked" ELSE "nested"]
    /\ UNCHANGED << registration, calc, with_stmt, testing, enginevars >>

\* Under the lock: the test whether the hooks still need to be resolved and,
\* if so, `if self._on_retry is None: self._on_retry = get_default_hooks()`.
init_check(t, prometheus, structlog) ==
    /\ thr[t].pc = "locked"
    /\ IF NeedsInit(CONFIG)
       THEN /\ thr' = [thr EXCEPT ![t].pc = "resolve"]
            /\ CONFIG' = [CONFIG EXCEPT !._on_retry =
                              IF @.some THEN @
                              ELSE Some(get_default_hooks(prometheus, structlog))]
       ELSE /\ thr' = [thr EXCEPT ![t].pc = "release"]
            /\ CONFIG' = CONFIG
    /\ UNCHANGED << registration, calc, with_stmt, testing, enginevars >>

\* Under the lock: self._on_retry = init_hooks(self._on_retry), which calls
\* the factories, and self._get_on_retry = lambda: self._on_retry.
init_resolve(t) ==
    /\ thr[t].pc = "resolve"
    /\ CONFIG' = [CONFIG EXCEPT !._on_retry = Some(init_hooks(@.val)),
                                !._get_on_retry = "lambda"]
    /\ registration' = [registration EXCEPT
                           !.calls = @ \o FactoryCalls(CONFIG._on_retry.val, 1)]
    /\ thr' = [thr EXCEPT ![t].pc = "release"]
    /\ UNCHANGED << calc, with_stmt, testing, enginevars >>

\* The `with self.lock` block is left.
lock_release(t) ==
    /\ thr[t].pc = "release"
    /\ CONFIG' = [CONFIG EXCEPT !.lock = 0]
    /\ thr' = [thr EXCEPT ![t].pc = "unlocked"]
    /\ UNCHANGED << registration, calc, with_stmt, testing, enginevars >>

\* `return self._on_retry`, after the lock has been released.
init_return(t) ==
    /\ thr[t].pc = "unlocked"
    /\ thr' = [thr EXCEPT ![t].pc = "returned", ![t].ret = CONFIG._on_retry]
    /\ UNCHANGED << CONFIG, registration, calc, with_stmt, testing, enginevars >>

\* The caller of get_on_retry_hooks() has its tuple and goes on.
getter_returns(t) ==
    /\ thr[t].pc = "returned"
    /\ thr' = [thr EXCEPT ![t] = IdleThread]
    /\ UNCHANGED << CONFIG, registration, calc, with_stmt, testing, enginevars >>

\* set_on_retry_hooks(hooks) by thread t: under the lock, the accessor is
\* reset to _init_on_first_retry and the tuple (or None) is stored.  Every
\* thread that is inside a read at that moment is marked: its read overlaps
\* a registration.
set_on_retry_hooks(t, hooks) ==
    /\ thr[t].pc = "idle"
    /\ CONFIG.lock = 0
    /\ CONFIG' = [CONFIG EXCEPT !._get_on_retry = "_init_on_first_retry",
                                !._on_retry = hooks]
    /\ registration' = [hooks |-> hooks, calls |-> <<>>]
    /\ thr' = [u \in Threads |->
                 IF thr[u].pc # "idle" THEN [thr[u] EXCEPT !.stale = TRUE] ELSE thr[u]]
    /\ UNCHANGED << calc, with_stmt, testing, enginevars >>

\* `with set_testing(True, attempts=..., cap=...): ...`.  The call stores the
\* override and returns None; entering the `with` statement with None
\* raises TypeError (AttributeError before Python 3.11) and the block is not
\* executed.
with_set_testing(t) ==
    /\ pc = "idle"
    /\ testing' = t
    /\ with_stmt' = [prior |-> testing, given |-> t, raised |-> "TypeError",
                     body_ran |-> FALSE]
    /\ UNCHANGED << regvars, enginevars >>

\* The configuration functions, called from NumThreads threads.
NextConfig ==
    \/ \E t \in Threads : on_retry_getter(t)
    \/ \E t \in Threads : call_lambda(t)
    \/ \E t \in Threads : lock_acquire(t)
    \/ \E t \in Threads, prometheus \in BOOLEAN, structlog \in BOOLEAN :
          init_check(t, prometheus, structlog)
    \/ \E t \in Threads : init_resolve(t)
    \/ \E t \in Threads : lock_release(t)
    \/ \E t \in Threads : init_return(t)
    \/ \E t \in Threads : getter_returns(t)
    \/ \E t \in Threads, hooks \in HooksChoices : set_on_retry_hooks(t, hooks)

SpecConfig == InitConfig /\ [][NextConfig]_vars

\* One retrying call and the code around it, which uses set_testing both as
\* a function and in `with` statements.
NextScope ==
    \/ NextCall
    \/ \E t \in TestingChoices : with_set_testing(t)

SpecScope == InitConfig /\ [][NextScope]_vars

\* ------------------------------- hook factories that raise or call back

\* The accessors of the configuration a hook factory may call while it is
\* run.  Each of them takes CONFIG.lock: the setters in their property
\* (`with self.lock`), get_on_retry_hooks and get_prometheus_counter through
\* CONFIG.on_retry, which is still _init_on_first_retry while the hooks are
\* being resolved.
AccessorsCalled ==
    {"get_on_retry_hooks", "get_prometheus_counter", "set_on_retry_hooks",
     "set_active", "set_testing"}

\* What set_on_retry_hooks is called with here: a factory that returns a
\* hook, a factory that raises, and factories that call an accessor.
ResolveChoices ==
    { Some(<< Hook("hook"), Factory("init") >>),
      Some(<< Factory("init"), Factory("raises") >>) }
    \cup { Some(<< Factory("init"), Factory(a) >>) : a \in AccessorsCalled }

\* The hook_factory() calls recorded for one registration whose factory
\* raises at every read: the calls after these are made but not recorded.
MaxCalls == 4

\* The first position of maybe_delayed whose factory does not simply return
\* a hook, 0 if there is none.
FirstSpecial(maybe_delayed) ==
    LET special == { i \in 1..Len(maybe_delayed) :
                        /\ maybe_delayed[i].kind = "factory"
                        /\ maybe_delayed[i].id \in AccessorsCalled \cup {"raises"} }
    IN IF special = {} THEN 0
       ELSE CHOOSE i \in special : \A j \in special : i <= j

\* The hook_factory() calls init_hooks makes up to and including position k.
FactoryCallsUpTo(maybe_delayed, k) ==
    SelectSeq(FactoryCalls(maybe_delayed, 1), LAMBDA i : i <= k)

\* init_hooks returns: every factory returned a hook.
init_hooks_returns(t) ==
    /\ thr[t].pc = "resolve"
    /\ FirstSpecial(CONFIG._on_retry.val) = 0
    /\ init_resolve(t)

\* A factory raises: the exception leaves init_hooks and the `with
\* self.lock` block, whose exit releases the lock, and then
\* _init_on_first_retry; nothing is stored.
factory_raises(t) ==
    /\ thr[t].pc = "resolve"
    /\ LET k == FirstSpecial(CONFIG._on_retry.val)
       IN /\ k # 0
          /\ CONFIG._on_retry.val[k].id = "raises"
          /\ registration' = [registration EXCEPT
                                 !.calls = IF Len(@) < MaxCalls
                                           THEN @ \o FactoryCallsUpTo(CONFIG._on_retry.val, k)
                                           ELSE @]
    /\ CONFIG' = [CONFIG EXCEPT !.lock = 0]
    /\ thr' = [thr EXCEPT ![t].pc = "raised"]
    /\ UNCHANGED << calc, with_stmt, testing, enginevars >>

\* A factory calls an accessor of the configuration, which comes to its
\* `with self.lock` while init_hooks, and with it the resolving thread, is
\* still inside the `with self.lock` block of _init_on_first_retry.
factory_calls_accessor(t) ==
    /\ thr[t].pc = "resolve"
    /\ LET k == FirstSpecial(CONFIG._on_retry.val)
       IN /\ k # 0
          /\ CONFIG._on_retry.val[k].id \in AccessorsCalled
          /\ registration' = [registration EXCEPT
                                 !.calls = @ \o FactoryCallsUpTo(CONFIG._on_retry.val, k)]
          /\ thr' = [thr EXCEPT ![t].pc = "in_factory",
                                ![t].acc = CONFIG._on_retry.val[k].id]
    /\ UNCHANGED << CONFIG, calc, with_stmt, testing, enginevars >>

\* The caller of the read has the exception of the factory and goes on.
getter_raises(t) ==
    /\ thr[t].pc = "raised"
    /\ thr' = [thr EXCEPT ![t] = IdleThread]
    /\ UNCHANGED << CONFIG, registration, calc, with_stmt, testing, enginevars >>

\* What a thread that is inside a read of the hooks does next.
ThreadStep(t) ==
    \/ call_lambda(t)
    \/ lock_acquire(t)
    \/ \E prometheus \in BOOLEAN, structlog \in BOOLEAN :
          init_check(t, prometheus, structlog)
    \/ init_hooks_returns(t)
    \/ factory_raises(t)
    \/ factory_calls_accessor(t)
    \/ lock_release(t)
    \/ init_return(t)

NextResolve ==
    \/ \E t \in Threads : on_retry_getter(t)
    \/ \E t \in Threads : ThreadStep(t)
    \/ \E t \in Threads : getter_returns(t)
    \/ \E t \in Threads : getter_raises(t)
    \/ \E t \in Threads, hooks \in ResolveChoices : set_on_retry_hooks(t, hooks)

\* A thread that can take a step takes it sooner or later: the interpreter
\* switches between the runnable threads, and a thread is held up only
\* while the lock it asks for is taken.
SpecResolve ==
    InitConfig /\ [][NextResolve]_vars /\ \A t \in Threads : WF_vars(ThreadStep(t))

\* ------------------------------------- the backoff functions, called directly

\* Largest attempt ordinal the functions are called with.
MaxNum == 3
\* Largest wait_initial, wait_max and wait_jitter, in ticks.
MaxWait == 2
\* Largest wait_exp_base.
MaxExpBase == 2

\* A retry_context object with any non-negative wait parameters, under any
\* testing override, and an attempt ordinal (rcs.attempt_number stands for
\* the ordinal of the SimpleNamespace / Mock retry state of the caller).
InitBackoff ==
    /\ policy \in [ on : {[form |-> "type", classes |-> {"ValueError"}]},
                    attempts : {NoneVal}, timeout : {NoneVal},
                    wait : [ wait_initial : 0..MaxWait, wait_max : 0..MaxWait,
                             wait_jitter : 0..MaxWait, wait_exp_base : 0..MaxExpBase ] ]
    /\ usage = "block"
    /\ is_active = TRUE
    /\ testing \in TestingChoices \cup {NoTesting}
    /\ on_retry = HookList
    /\ cms_to_exit = <<>>
    /\ a_engine = NoRetryEngine
    /\ seqno = 0
    /\ pc = "idle"
    /\ mode = "sync"
    /\ seq_cfg = [is_active |-> TRUE, testing |-> NoTesting]
    /\ eng = NoRetryEngine
    /\ rcs \in [ attempt_number : 1..MaxNum, idle_for : {0}, start_time : {0},
                 outcome_timestamp : {0}, upcoming_sleep : {0}, outcome : {NoExc} ]
    /\ now = 0
    /\ log = <<>>
    /\ result = NoResult
    /\ gen = NoGen
    /\ RegistryResolved

\* rci._backoff_for_attempt_number(i) and
\* rci._jittered_backoff_for_rcs(SimpleNamespace(attempt_number=i)), where
\* random.uniform(0, wait_jitter) returns `draw`.
BackoffCalls(draw) ==
    /\ LET raises == ComputeBackoffRaises(policy.wait.wait_max, policy.wait.wait_initial,
                                          policy.wait.wait_exp_base)
       IN calc' = [NoCalc EXCEPT
                      !.call = "backoff",
                      !.raises = raises,
                      !.draw = draw,
                      !.preview = IF raises = "none"
                                  THEN _backoff_for_attempt_number(rcs.attempt_number)
                                  ELSE 0,
                      !.jittered = IF raises = "none"
                                   THEN _jittered_backoff_for_rcs(rcs, draw)
                                   ELSE 0]
    /\ UNCHANGED << CONFIG, thr, registration, with_stmt, testing, enginevars >>

\* Attempt(am, fn).next_wait, where am.retry_state.attempt_number is the
\* ordinal.
ReadNextWait(fn) ==
    /\ LET raises == IF fn = "_backoff_for_attempt_number"
                     THEN ComputeBackoffRaises(policy.wait.wait_max,
                                               policy.wait.wait_initial,
                                               policy.wait.wait_exp_base)
                     ELSE "none"
       IN calc' = [NoCalc EXCEPT
                      !.call = "next_wait",
                      !.fn = fn,
                      !.raises = raises,
                      !.next_wait = IF raises = "none"
                                    THEN next_wait([num |-> rcs.attempt_number,
                                                    _next_wait_fn |-> fn])
                                    ELSE 0]
    /\ UNCHANGED << CONFIG, thr, registration, with_stmt, testing, enginevars >>

NextBackoff ==
    \/ \E draw \in 0..policy.wait.wait_jitter : BackoffCalls(draw)
    \/ \E fn \in WaitFns : ReadNextWait(fn)

SpecBackoff == InitBackoff /\ [][NextBackoff]_vars

\* ---------------------------------------------------- reading the history

Last(sq) == sq[Len(sq)]
Indices(t) == { i \in 1..Len(log) : log[i].t = t }
Count(t) == Cardinality(Indices(t))

\* The sequence ended through the outcome of the body of its last attempt.
EndedByBody == pc = "done" /\ log # <<>> /\ Last(log).t \in {"ret", "exc"}

\* The exception instance attempt n raised, as the caller would see it.
BodyExc(e) == [src |-> "body", n |-> e.a, cls |-> e.s]

\* ------------------------------------------------------------------ claims

\* C1: a failure of the body that the retry predicate `on` does not match
\* ends the sequence at once: it is the last event of the history (no
\* RetryDetails, no hook, no wait and no further Attempt follow it), the
\* sequence is over, and the caller gets that very exception instance.
C1_NonMatchingPropagates ==
    \A i \in Indices("exc") :
        ~Retry(policy.on, log[i].s)
            => /\ i = Len(log)
               /\ pc = "done"
               /\ log[i].a = rcs.attempt_number
               /\ result = Raised(BodyExc(log[i]))

\* C1 witness: with retries active, the second attempt raises a ValueError
\* under a predicate callable that accepts KeyError only.
C1_Witness ==
    /\ pc = "done"
    /\ seq_cfg.is_active
    /\ policy.on.form = "callable"
    /\ rcs.attempt_number = 2
    /\ Last(log).t = "exc" /\ Last(log).s = "ValueError"
    /\ result = Raised([src |-> "body", n |-> 2, cls |-> "ValueError"])

\* C2: when the sequence ends on a failure the predicate matches (the stop
\* policy said stop), the caller gets the exception of the last attempt
\* itself: not a wrapper, and not the exception of an earlier attempt.
C2_LastFailureSurfaces ==
    (EndedByBody /\ Last(log).t = "exc" /\ Retry(policy.on, Last(log).s))
        => /\ result.kind = "raise"
           /\ result.exc = BodyExc(Last(log))
           /\ result.exc.n = rcs.attempt_number
           /\ result.exc.n = Count("attempt")

\* C2 witness: two attempts failed with matching exceptions of different
\* classes and the second one is what the caller gets.
C2_Witness ==
    /\ pc = "done"
    /\ seq_cfg.is_active
    /\ Count("exc") = 2
    /\ \A i \in Indices("exc") : Retry(policy.on, log[i].s)
    /\ \E i \in Indices("exc") : log[i].a = 1 /\ log[i].s = "KeyError"
    /\ result = Raised([src |-> "body", n |-> 2, cls |-> "ValueError"])

\* C3: k matching failures followed by a success.  While a body runs, the
\* ordinal of its Attempt is the number of body executions so far.  When the
\* body returns v, the call returns v, the body ran k + 1 times, the hook
\* pipeline ran k times (every hook k times), the ordinals seen were
\* 1..k+1 in this order, and nothing follows the success.  With attempts = N
\* and no timeout reached, a matching failure of attempt j < N does not end
\* the call.
C3_FailThenSucceed ==
    /\ pc = "body" =>
          /\ rcs.attempt_number = Count("attempt")
          /\ Count("exc") = rcs.attempt_number - 1
          /\ Count("ret") = 0
    /\ (EndedByBody /\ Last(log).t = "ret") =>
          LET k == Count("exc") IN
          /\ result = Returned(Last(log).b)
          /\ Last(log).a = k + 1
          /\ Count("ret") = 1
          /\ Count("attempt") = k + 1
          /\ \A n \in 1..(k + 1) : \E i \in Indices("attempt") : log[i].a = n
          /\ \A i, j \in Indices("attempt") : i < j => log[i].a < log[j].a
          /\ Count("details") = k
          /\ \A h \in 1..Len(on_retry) :
                 Cardinality({ i \in Indices("hook") : log[i].a = h }) = k
          /\ \A i \in Indices("exc") : Retry(policy.on, log[i].s)
    /\ ( /\ EndedByBody /\ Last(log).t = "exc" /\ Retry(policy.on, Last(log).s)
         /\ seq_cfg.is_active /\ ~seq_cfg.testing.on /\ policy.attempts.some
         /\ (policy.timeout.some => Last(log).b < policy.timeout.val) )
          => Last(log).a >= policy.attempts.val

\* C3 witness: attempts = 2, the first attempt fails, the second returns 42.
C3_Witness ==
    /\ pc = "done"
    /\ seq_cfg.is_active /\ ~seq_cfg.testing.on
    /\ policy.attempts = Some(2)
    /\ Count("exc") = 1
    /\ Last(log).t = "ret" /\ Last(log).a = 2
    /\ result = Returned(42)
    /\ Count("hook") = Len(on_retry)

\* C4: a sequence begun with retries active and no testing override, under
\* a policy with attempts = N, runs the body at most max(1, N) times, and
\* exactly max(1, N) times if it ends on a matching failure before the
\* timeout is reached.  With N = 1 there is one Attempt, no retry and no
\* hook call.
C4_AttemptsLimit ==
    (seq_cfg.is_active /\ ~seq_cfg.testing.on /\ policy.attempts.some /\ pc # "idle")
        => LET N == policy.attempts.val
               cap == IF N >= 1 THEN N ELSE 1
           IN /\ Count("attempt") <= cap
              /\ Count("exc") + Count("ret") <= cap
              /\ ( /\ EndedByBody /\ Last(log).t = "exc"
                   /\ Retry(policy.on, Last(log).s)
                   /\ (policy.timeout.some => Last(log).b < policy.timeout.val) )
                    => /\ Count("exc") = cap
                       /\ result = Raised(BodyExc(Last(log)))
              /\ N = 1 => /\ Count("details") = 0
                          /\ Count("hook") = 0
                          /\ Count("wait_begin") = 0

\* C4 witness: attempts = 0 and one failed attempt ends the call; no timeout.
C4_Witness ==
    /\ pc = "done"
    /\ seq_cfg.is_active /\ ~seq_cfg.testing.on
    /\ policy.attempts = Some(0) /\ ~policy.timeout.some
    /\ Count("exc") = 1 /\ Retry(policy.on, Last(log).s)
    /\ result.kind = "raise"


\* C5 as stated: whenever an attempt fails with the number of attempts made
\* at the effective attempts limit, or with the time since the sequence
\* began at the configured timeout, nothing is scheduled after that failure.
\* The effective limit is 1 for a sequence begun inactive, get_attempts(N)
\* under a testing override and N otherwise.
C5_EffectiveLimit ==
    IF ~seq_cfg.is_active THEN Some(1)
    ELSE IF seq_cfg.testing.on THEN Some(get_attempts(seq_cfg.testing, policy.attempts))
    ELSE policy.attempts

C5_StopWhenAnyFires ==
    \A i \in Indices("exc") :
        ( \/ C5_EffectiveLimit.some /\ log[i].a >= C5_EffectiveLimit.val
          \/ policy.timeout.some /\ log[i].b >= policy.timeout.val )
            => i = Len(log) /\ pc = "done"

\* C5 amended: in a sequence begun with retries active, nothing is scheduled
\* after a failure at which the attempts made have reached the effective
\* limit, or at which, no testing override having been active when the
\* sequence began, the elapsed time has reached the timeout.  (A testing
\* override replaces the whole stop condition by its attempts limit.)
C5_StopAmended ==
    seq_cfg.is_active =>
        \A i \in Indices("exc") :
            ( \/ C5_EffectiveLimit.some /\ log[i].a >= C5_EffectiveLimit.val
              \/ ~seq_cfg.testing.on /\ policy.timeout.some
                   /\ log[i].b >= policy.timeout.val )
                => /\ i = Len(log)
                   /\ pc = "done"
                   /\ result = Raised(BodyExc(log[i]))

\* C5 witness: attempts = None, no testing override; the second attempt
\* fails with a matching exception after the timeout and the call ends.
C5_Witness ==
    /\ pc = "done"
    /\ seq_cfg.is_active /\ ~seq_cfg.testing.on
    /\ policy.attempts = NoneVal /\ policy.timeout = Some(MaxTimeout)
    /\ Last(log).t = "exc" /\ Last(log).a = 2 /\ Last(log).b >= MaxTimeout
    /\ Retry(policy.on, Last(log).s)
    /\ result.kind = "raise"

\* C6 as stated: a sequence begun while CONFIG.is_active is false produces
\* one Attempt, runs no hook and no wait, and passes the body's outcome on.
C6_InactiveOneAttempt ==
    (~seq_cfg.is_active /\ pc # "idle")
        => /\ Count("attempt") = 1
           /\ Count("details") = 0 /\ Count("hook") = 0 /\ Count("wait_begin") = 0
           /\ pc = "done" =>
                 /\ EndedByBody
                 /\ Last(log).t = "ret" => result = Returned(Last(log).b)
                 /\ Last(log).t = "exc" => result = Raised(BodyExc(Last(log)))

\* C7 as stated: if CONFIG.is_active is false at the moment an attempt
\* fails, no retry is scheduled and that failure goes to the caller.
C7_DeactivationMidSequence ==
    \A i \in Indices("exc") :
        log[i].c = 0
            => /\ i = Len(log)
               /\ pc = "done"
               /\ result = Raised(BodyExc(log[i]))

\* C7 amended: the flag is read when a sequence begins, not afterwards.  In
\* a sequence begun active (and without testing override), a matching
\* failure that happens after set_active(False), below the attempts limit
\* and before the timeout, is followed by a scheduled retry like any other.
C7_FlagReadAtStart ==
    (seq_cfg.is_active /\ ~seq_cfg.testing.on) =>
        \A i \in Indices("exc") :
            ( /\ log[i].c = 0
              /\ Retry(policy.on, log[i].s)
              /\ ~(policy.attempts.some /\ log[i].a >= policy.attempts.val)
              /\ ~(policy.timeout.some /\ log[i].b >= policy.timeout.val) )
                => /\ i < Len(log)
                   /\ log[i + 1].t = "details" /\ log[i + 1].a = log[i].a

\* C7 witness: the flag was cleared during the first wait; the second
\* attempt failed and the hooks ran for a second retry, whose wait is on.
C7_Witness ==
    /\ pc = "sleep"
    /\ seq_cfg.is_active /\ ~is_active
    /\ rcs.attempt_number = 2
    /\ \E i \in Indices("exc") : log[i].a = 2 /\ log[i].c = 0
    /\ \E i \in Indices("details") : log[i].a = 2
    /\ Last(log).t = "wait_begin"


\* C8: for every retry whose wait begins, one RetryDetails was built right
\* after the failure, every hook was then invoked once with it, in
\* registration order, and nothing but hook calls and the entering of their
\* scope handles lies between the RetryDetails and the start of the wait;
\* every attempt after the first starts after the end of the wait of the
\* retry before it, with only exits of scope handles in between.
C8_HooksThenWaitThenAttempt ==
    /\ \A j \in Indices("wait_begin") :
          LET n == log[j].a
              ds == { d \in Indices("details") : log[d].a = n }
          IN /\ Cardinality(ds) = 1
             /\ \A d \in ds :
                   /\ 1 < d /\ d < j
                   /\ log[d - 1].t = "exc" /\ log[d - 1].a = n
                   /\ \A k \in (d + 1)..(j - 1) :
                         log[k].t \in {"hook", "enter"} /\ log[k].b = n
                   /\ LET hk == { k \in (d + 1)..(j - 1) : log[k].t = "hook" }
                      IN /\ Cardinality(hk) = Len(on_retry)
                         /\ \A h \in 1..Len(on_retry) : \E k \in hk : log[k].a = h
                         /\ \A k1, k2 \in hk : k1 < k2 => log[k1].a < log[k2].a
    /\ \A i \in Indices("attempt") :
          log[i].a > 1 =>
              \E b, w \in 1..(i - 1) :
                  /\ b < w
                  /\ log[b].t = "wait_begin" /\ log[b].a = log[i].a - 1
                  /\ log[w].t = "wait_end" /\ log[w].a = log[i].a - 1
                  /\ w = b + 1
                  /\ \A k \in (w + 1)..(i - 1) : log[k].t = "exit"

\* C8 witness: the second attempt is running after a retry for which all
\* four hooks ran and the wait elapsed.
C8_Witness ==
    /\ pc = "body" /\ rcs.attempt_number = 2
    /\ Count("details") = 1 /\ Count("hook") = Len(on_retry)
    /\ Count("wait_begin") = 1 /\ Count("wait_end") = 1
    /\ Last(log).t = "attempt"

\* C9 as stated: in any call that has ended, the hook pipeline has run as
\* often as attempts were started, minus one.
C9_RunsEqualAttemptsMinusOne ==
    pc = "done" => Count("details") = Count("attempt") - 1

\* C9 amended: the pipeline runs once per scheduled retry and at no other
\* time: nothing follows a successful attempt, a failure the predicate does
\* not match or the failure on which the stop policy stops, and every hook
\* call belongs to the RetryDetails built right after a failure.  The runs
\* number the attempts started minus one while a body runs and when a call
\* ends with the outcome of its last attempt; they number the attempts
\* started while a wait is on and when a call is ended within a retry, by a
\* raising hook or by the interruption of the wait.
C9_PipelinePerScheduledRetry ==
    /\ (pc = "body" \/ EndedByBody) => Count("details") = Count("attempt") - 1
    /\ (pc = "sleep" \/ (pc = "done" /\ ~EndedByBody))
          => Count("details") = Count("attempt")
    /\ \A i \in Indices("ret") : i = Len(log)
    /\ \A i \in Indices("exc") :
          /\ i = Len(log) \/ log[i + 1].t = "details"
          /\ i = Len(log) => pc = "done"
    /\ \A d \in Indices("details") :
          d > 1 /\ log[d - 1].t = "exc" /\ log[d - 1].a = log[d].a
    /\ \A k \in Indices("hook") :
          \E d \in Indices("details") :
              /\ d < k /\ log[d].a = log[k].b
              /\ \A m \in (d + 1)..(k - 1) : log[m].t \in {"hook", "enter"}

\* C9 witness: attempts = 2 and a body that always fails: two attempts, one
\* run of the pipeline, and the second failure handed to the caller.
C9_Witness ==
    /\ EndedByBody /\ Last(log).t = "exc"
    /\ policy.attempts = Some(2) /\ seq_cfg.is_active /\ ~seq_cfg.testing.on
    /\ Count("attempt") = 2 /\ Count("details") = 1
    /\ Count("hook") = Len(on_retry)
    /\ result = Raised(BodyExc(Last(log)))

\* C10 as stated: every scope handle entered in a retry is exited once and
\* only once, after the wait of that retry has ended and before the body of
\* the next attempt starts, and the handles of one retry are exited in
\* reverse registration order.
C10_ScopeHandlesExitedOnce ==
    /\ \A k \in Indices("enter") :
          LET xs == { x \in Indices("exit") :
                         /\ log[x].a = log[k].a
                         /\ log[x].b = log[k].b
                         /\ log[x].c = log[k].c }
          IN /\ Cardinality(xs) <= 1
             /\ \A x \in xs :
                   \E b, w \in (k + 1)..(x - 1) :
                       /\ b < w
                       /\ log[b].t = "wait_begin" /\ log[b].a = log[k].b
                       /\ log[w].t = "wait_end" /\ log[w].a = log[k].b
             /\ \A i \in Indices("attempt") :
                   (i > k /\ log[i].a = log[k].b + 1) => \E x \in xs : x < i
    /\ \A x1, x2 \in Indices("exit") :
          (x1 < x2 /\ log[x1].a = log[x2].a /\ log[x1].b = log[x2].b)
              => log[x1].c > log[x2].c


\* C11: the k-th RetryDetails of a call has retry_num = k >= 1, which is
\* the ordinal of the attempt that has just failed, and its caused_by is
\* the exception that attempt raised.
C11_RetryNumAndCause ==
    \A d \in Indices("details") :
        /\ log[d].a >= 1
        /\ log[d].a = Cardinality({ j \in Indices("details") : j <= d })
        /\ \A j \in Indices("details") : j < d => log[j].a < log[d].a
        /\ d > 1
        /\ log[d - 1].t = "exc"
        /\ log[d - 1].a = log[d].a
        /\ log[d].x = log[d - 1].a /\ log[d].s = log[d - 1].s

\* C11 witness: two retries, the second caused by another class of failure
\* than the first.
C11_Witness ==
    /\ Count("details") = 2
    /\ \E d1, d2 \in Indices("details") :
          /\ d1 < d2
          /\ log[d1].a = 1 /\ log[d2].a = 2
          /\ log[d1].s = "ValueError" /\ log[d2].s = "KeyError"


\* C12: in the history of one call the first RetryDetails has
\* waited_so_far = 0, each later one has waited_so_far equal to the
\* waited_so_far plus the wait_for of the one before it, and wait_for is
\* the length of the wait that begins after the hooks of that retry.
C12_WaitAccounting ==
    \A d \in Indices("details") :
        /\ (\A j \in Indices("details") : j >= d) => log[d].c = 0
        /\ \A j \in Indices("details") :
              (j < d /\ \A m \in Indices("details") : ~(j < m /\ m < d))
                  => log[d].c = log[j].c + log[j].b
        /\ \A w \in Indices("wait_begin") : log[w].a = log[d].a => log[w].b = log[d].b
        /\ \A w \in Indices("wait_end") : log[w].a = log[d].a => log[w].b = log[d].b


\* C13: in a retried generator every attempt has its own underlying
\* producer, earlier producers are finished and never resumed again, and
\* the producer of a new attempt starts from scratch: the first value it
\* yields is its first own value, whatever was delivered before.  A matching
\* failure of the producer, before its first value or after a value, below
\* the attempts limit is followed by the pipeline of a scheduled retry.
C13_ProducerRestarts ==
    pc # "idle" =>
        /\ Len(gen.prods) = Count("attempt")
        /\ \A q \in 1..(Len(gen.prods) - 1) : gen.prods[q].st = "done"
        /\ \A i \in Indices("yield") :
              /\ log[i].a = Cardinality({ j \in Indices("attempt") : j < i })
              /\ log[i].c = 1 + Cardinality({ j \in Indices("yield") :
                                                 j < i /\ log[j].a = log[i].a })
              /\ log[i - 1].t = "attempt"
                    => log[i].c = 1 /\ log[i].b = ValueAt(1)
        /\ \A e \in Indices("exc") :
              ( /\ log[e].s # "GeneratorExit"
                /\ Retry(policy.on, log[e].s)
                /\ ~(policy.attempts.some /\ log[e].a >= policy.attempts.val) )
                  => /\ e < Len(log)
                     /\ log[e + 1].t = "details" /\ log[e + 1].a = log[e].a

\* C13 witness: attempts = 2; the producer yields 42 and then raises a
\* matching ValueError; the second producer yields 42 again; the consumer
\* has received 42 twice and the pipeline has run once.
C13_Witness ==
    /\ pc = "yielded"
    /\ policy.attempts = Some(2)
    /\ Count("got") = 2
    /\ \A i \in Indices("got") : log[i].b = 42
    /\ Count("exc") = 1 /\ \A e \in Indices("exc") : log[e].s = "ValueError"
    /\ Count("details") = 1 /\ Count("hook") = Len(on_retry)
    /\ Len(gen.prods) = 2 /\ gen.prods[1].pos = 1 /\ gen.prods[2].pos = 1


\* C14: what the consumer sends reaches the current producer unchanged at
\* its pending yield, and what the producer yields is what the consumer
\* receives; while the producer raises nothing there is one attempt, one
\* producer and no retry, so the wrapper behaves as the producer does.
C14_SendAndYieldUnchanged ==
    /\ \A i \in Indices("send") :
          /\ i < Len(log)
          /\ log[i + 1].t = "recv"
          /\ log[i + 1].b = log[i].b
          /\ log[i + 1].s = (IF log[i].b = 0 THEN "next" ELSE "send")
          /\ log[i + 1].a = Cardinality({ j \in Indices("attempt") : j < i })
    /\ \A i \in Indices("got") :
          log[i - 1].t = "yield" /\ log[i].b = log[i - 1].b /\ log[i].a = log[i - 1].a
    /\ \A i \in Indices("yield") :
          i < Len(log) /\ log[i + 1].t \in {"got", "ignored_exit"}
    /\ (IsGen /\ pc # "idle" /\ Count("exc") = 0)
          => Count("attempt") = 1 /\ Len(gen.prods) = 1 /\ Count("details") = 0

\* C14 witness: the consumer sent 7 and received the 7 the producer yielded
\* in response, and nothing has been raised.
C14_Witness ==
    /\ pc = "yielded"
    /\ Count("exc") = 0
    /\ \E i \in Indices("send") :
          /\ log[i].b = 7
          /\ log[i + 1].t = "recv" /\ log[i + 1].b = 7
          /\ log[i + 2].t = "yield" /\ log[i + 2].b = 7
          /\ log[i + 3].t = "got" /\ log[i + 3].b = 7

\* C15: an exception the consumer throws in reaches the current producer as
\* the same object.  If the producer lets it out, the engine judges that
\* object; if it matches and the attempts limit is not reached a retry is
\* scheduled, and the first value of the new producer is what the throw
\* call returns.  If the producer swallows it and ends, the wrapper ends
\* with it and no retry is scheduled.
C15_ThrowForwarded ==
    \A t \in Indices("throw") :
        /\ t < Len(log)
        /\ log[t + 1].t = "thrown_in"
        /\ log[t + 1].x = 1
        /\ log[t + 1].s = log[t].s /\ log[t + 1].b = log[t].b
        /\ log[t + 1].a = Cardinality({ j \in Indices("attempt") : j < t })
        /\ t + 2 <= Len(log) =>
              /\ (log[t + 2].t = "exc" /\ log[t + 2].s = log[t].s)
                    => /\ log[t + 2].x = log[t].b
                       /\ ( Retry(policy.on, log[t].s)
                            /\ ~(policy.attempts.some
                                 /\ log[t + 2].a >= policy.attempts.val) )
                             => t + 2 < Len(log) /\ log[t + 3].t = "details"
              /\ log[t + 2].t = "ret"
                    => t + 2 = Len(log) /\ pc = "done" /\ result.kind = "ret"
        /\ \A g \in Indices("got") :
              (g > t /\ log[g].c = log[t].c /\ log[g].a > log[t].a)
                  => /\ log[g].s = "throw"
                     /\ log[g].b = ValueAt(1)
                     /\ log[g - 2].t = "attempt"

\* C15 witness: the producer let the thrown ValueError out, it matched, and
\* the throw call has returned the first value of the second producer.
C15_Witness ==
    /\ pc = "yielded"
    /\ Last(log).t = "got" /\ Last(log).s = "throw" /\ Last(log).b = ValueAt(1)
    /\ Last(log).a = 2
    /\ \E t \in Indices("throw") :
          /\ log[t + 2].t = "exc" /\ log[t + 2].x = log[t].b
          /\ log[t].c = Last(log).c


\* C16: when the producer of a retried generator ends of itself, the
\* wrapper ends there: the producer's return value is the wrapper's return
\* value (None for an async generator), no retry is scheduled for that
\* attempt and no hook runs, and the consumer has received exactly the
\* values the producers yielded, none when they yielded none.
C16_NaturalEnd ==
    IsGen =>
        \A i \in Indices("ret") :
            /\ i = Len(log) /\ pc = "done"
            /\ result.kind = "ret" /\ result.val = log[i].b
            /\ mode = "async" => result.val = 0
            /\ \A d \in Indices("details") : log[d].a < log[i].a
            /\ Count("details") = Count("attempt") - 1
            /\ Count("got") = Count("yield")

\* C16 witness: a sync producer yielded a value and then returned 42, which
\* is the wrapper's return value; there was no retry.
C16_Witness ==
    /\ IsGen /\ mode = "sync" /\ pc = "done"
    /\ Last(log).t = "ret" /\ Last(log).b = 42
    /\ result.kind = "ret" /\ result.val = 42
    /\ Count("yield") = 1 /\ Count("details") = 0


\* C17: a close() / aclose() of the consumer is forwarded to the current
\* producer and nothing of a retry follows it: no RetryDetails, no hook, no
\* wait, no further attempt and no new producer, whatever the predicate.
C17_CloseIsNoRetryTrigger ==
    \A c \in Indices("close") :
        /\ c < Len(log)
        /\ log[c + 1].t = "closed"
        /\ log[c + 1].b = Cardinality({ j \in Indices("attempt") : j < c })
        /\ \A j \in (c + 1)..Len(log) :
              log[j].t \notin {"details", "hook", "enter", "wait_begin", "attempt", "yield"}
        /\ Len(gen.prods) = log[c + 1].b


\* C18: in the async generator wrapper aclose() is called on every
\* producer once and only once: never twice, once on every producer of an
\* earlier attempt, and once on every producer when the consumer's call
\* that ended the wrapper (or its aclose()) is over.
C18_ClosedExactlyOnce ==
    (IsGen /\ mode = "async") =>
        /\ \A q \in 1..Len(gen.prods) : gen.prods[q].closes <= 1
        /\ \A q \in 1..(Len(gen.prods) - 1) : gen.prods[q].closes = 1
        /\ pc = "done" => \A q \in 1..Len(gen.prods) : gen.prods[q].closes = 1

\* C19: a cancellation is never retried: one that interrupts the wait ends
\* the call at once, and one that the body raises ends the call with that
\* very exception, whatever the predicate.
C19_CancellationNotRetried ==
    /\ \A i \in Indices("interrupt") :
          i = Len(log) /\ pc = "done" /\ result.kind = "raise"
          /\ result.exc.cls = "Cancelled"
    /\ \A e \in Indices("exc") :
          log[e].s = "Cancelled"
              => e = Len(log) /\ pc = "done" /\ result = Raised(BodyExc(log[e]))

\* C20: a sequence begun under the testing override (A, cap) with the
\* user's attempts U has the ceiling A if cap is false or U is None, and
\* min(A, U) if cap is true: no more than max(1, ceiling) attempts are
\* started, and exactly that many when every attempt fails with a matching
\* exception.
C20_Ceiling ==
    IF ~seq_cfg.testing.cap \/ ~policy.attempts.some
    THEN seq_cfg.testing.attempts
    ELSE Min(seq_cfg.testing.attempts, policy.attempts.val)

C20_TestingCeiling ==
    (seq_cfg.is_active /\ seq_cfg.testing.on /\ pc # "idle") =>
        LET top == IF C20_Ceiling < 1 THEN 1 ELSE C20_Ceiling
        IN /\ Count("attempt") <= top
           /\ ( EndedByBody /\ Last(log).t = "exc" /\ Retry(policy.on, Last(log).s) )
                 => Count("attempt") = top

\* C21: while a testing override is set every backoff is 0: next_wait of the
\* current Attempt is 0, the wait being performed is 0 and the RetryDetails
\* of that retry reports wait_for = 0; with no override the backoff is again
\* what the wait parameters give, which is not 0 when wait_initial and
\* wait_max are not 0.
C21_TestingZeroesBackoff ==
    /\ (testing.on /\ pc = "body") => next_wait(Attempt) = 0
    /\ (testing.on /\ pc = "sleep")
          => /\ rcs.upcoming_sleep = 0
             /\ \A i \in Indices("details") :
                   log[i].a = rcs.attempt_number => log[i].b = 0
    /\ (~testing.on /\ pc = "body" /\ Attempt._next_wait_fn # "None"
          /\ policy.wait.wait_initial # 0 /\ policy.wait.wait_max # 0)
          => next_wait(Attempt) # 0
\* C22: set_testing(...) is a scoped toggle: once a `with set_testing(...)`
\* statement has been left, normally or through an exception, the override
\* that was in force before it is in force again (None if testing was off),
\* and its block has run under the given override.
C22_ScopeRestoresPrior ==
    with_stmt # NoWith
        => /\ testing = with_stmt.prior
           /\ with_stmt.body_ran
\* C23: for every attempt ordinal and all non-negative wait parameters,
\* neither the jitter-free backoff (_backoff_for_attempt_number) nor the
\* jittered backoff (_jittered_backoff_for_rcs) exceeds wait_max.
C23_BackoffClamped ==
    (calc.call = "backoff" /\ calc.raises = "none")
        => /\ calc.preview <= policy.wait.wait_max
           /\ calc.jittered <= policy.wait.wait_max

\* C23 witness: without a testing override, the exponential term plus the
\* jitter drawn exceeds a non-zero wait_max at an ordinal above 1, and both
\* functions return wait_max.
C23_Witness ==
    /\ calc.call = "backoff"
    /\ calc.raises = "none"
    /\ ~testing.on
    /\ rcs.attempt_number > 1
    /\ policy.wait.wait_max > 0
    /\ policy.wait.wait_initial * Pow(policy.wait.wait_exp_base, rcs.attempt_number - 1)
          > policy.wait.wait_max
    /\ calc.preview = policy.wait.wait_max
    /\ calc.jittered = policy.wait.wait_max

\* C24: for the same ordinal and wait parameters the jitter-free preview is
\* at most the jittered backoff, whatever the jitter drawn, and the two are
\* equal when wait_jitter is 0.
C24_PreviewIsLowerBound ==
    (calc.call = "backoff" /\ calc.raises = "none")
        => /\ calc.preview <= calc.jittered
           /\ policy.wait.wait_jitter = 0 => calc.preview = calc.jittered

\* C24 witness: a jitter above 0 was drawn and the jittered backoff, not
\* clamped, is the preview plus that jitter.
C24_Witness ==
    /\ calc.call = "backoff"
    /\ calc.raises = "none"
    /\ ~testing.on
    /\ calc.draw > 0
    /\ calc.jittered < policy.wait.wait_max
    /\ calc.jittered = calc.preview + calc.draw
\* C25: next_wait is a minimum of the real wait: while the wait that follows
\* the failed attempt n is performed, the next_wait of the Attempt n (read
\* under the configuration the wait was computed with) is at most that wait
\* and at most the wait_for reported for retry n, and equals the wait when
\* wait_jitter is 0.
C25_NextWaitIsMinimum ==
    (pc = "sleep" /\ eng.wait /\ Attempt._next_wait_fn # "None")
        => /\ next_wait(Attempt) <= rcs.upcoming_sleep
           /\ \A i \in Indices("details") :
                 log[i].a = rcs.attempt_number => next_wait(Attempt) <= log[i].b
           /\ policy.wait.wait_jitter = 0 => next_wait(Attempt) = rcs.upcoming_sleep

\* C26: next_wait is computed from the current attempt number: an Attempt
\* with ordinal n and wait function f has next_wait = f(n), so n itself when
\* f is the identity, and 0 when it has no wait function.
C26_NextWaitOfCurrentAttempt ==
    calc.call = "next_wait"
        => /\ calc.fn = "identity" => calc.next_wait = rcs.attempt_number
           /\ calc.fn = "None" => calc.next_wait = 0
           /\ (calc.fn = "_backoff_for_attempt_number" /\ calc.raises = "none")
                 => calc.next_wait = _backoff_for_attempt_number(rcs.attempt_number)
\* C27: when the callable given as `on` returns a float for a failure, even
\* 0.0, the failure is retried unless the stop policy stops, and the wait
\* before the next attempt is that float instead of the computed backoff.
C27_FloatIsBackoff ==
    (policy.on.form = "backoff_hook" /\ seq_cfg.is_active)
        => /\ (pc = "done" /\ log # <<>> /\ Last(log).t = "exc")
                 => Stop(eng.stop, rcs)
           /\ (pc = "sleep" /\ ~testing.on)
                 => rcs.upcoming_sleep = policy.on.backoff
\* The hook a RetryHookFactory entry stands for once resolved; a plain hook
\* stands for itself.
C28_Resolved(h) ==
    IF h.kind = "factory" THEN [kind |-> "hook", id |-> h.id, made |-> TRUE] ELSE h

\* The factory in position p was called k times for the current registration.
C28_CalledTimes(p, k) ==
    Cardinality({ i \in 1..Len(registration.calls) : registration.calls[i] = p }) = k

\* C28: a get_on_retry_hooks() that no registration overlaps returns a tuple
\* with the length and order of the last set_on_retry_hooks(H), each plain
\* hook being the object given and each RetryHookFactory replaced by what
\* its factory returned; for () it is the empty tuple and for None the
\* non-empty resolved defaults; and however often the hooks are read, each
\* factory of the registration has been called once and not again.
C28_GetReturnsResolvedHooks ==
    \A t \in Threads :
        (thr[t].pc = "returned" /\ ~thr[t].stale)
            => /\ thr[t].ret.some
               /\ registration.hooks.some
                     => /\ Len(thr[t].ret.val) = Len(registration.hooks.val)
                        /\ \A i \in 1..Len(registration.hooks.val) :
                              /\ thr[t].ret.val[i] = C28_Resolved(registration.hooks.val[i])
                              /\ C28_CalledTimes(i,
                                    IF registration.hooks.val[i].kind = "factory"
                                    THEN 1 ELSE 0)
               /\ ~registration.hooks.some
                     => /\ thr[t].ret.val # <<>>
                        /\ \E d \in DefaultHooks :
                              /\ Len(thr[t].ret.val) = Len(d)
                              /\ \A i \in 1..Len(d) :
                                    /\ thr[t].ret.val[i] = C28_Resolved(d[i])
                                    /\ C28_CalledTimes(i, 1)

\* C28 witness: after set_on_retry_hooks([factory, hook, factory]) the
\* hooks were resolved, and a later get, which found them resolved, returns
\* the product, the hook and the other product, each factory called once.
C28_Witness ==
    \E t \in Threads :
        /\ thr[t].pc = "returned"
        /\ ~thr[t].stale
        /\ thr[t].acc = "lambda"
        /\ registration.hooks = Some(<< Factory("init"), Hook("hook"), Factory("init2") >>)
        /\ thr[t].ret = Some(<< [kind |-> "hook", id |-> "init", made |-> TRUE],
                                Hook("hook"),
                                [kind |-> "hook", id |-> "init2", made |-> TRUE] >>)
        /\ registration.calls = << 1, 3 >>

\* C29: each factory of a registration is called once however many threads
\* trigger the first resolution: no position is called twice, resolution
\* runs only under the lock and only while the accessor still is
\* _init_on_first_retry, so a thread that gets the lock after the
\* resolution finds the accessor replaced, calls no factory, leaves the
\* accessor as it is and returns the resolved hooks.
C29_ResolvedOnceUnderLock ==
    /\ \A p \in 1..Len(registration.calls) :
          \A q \in 1..Len(registration.calls) :
              registration.calls[p] = registration.calls[q] => p = q
    /\ CONFIG._get_on_retry = "_init_on_first_retry" => registration.calls = <<>>
    /\ \A t \in Threads :
          /\ thr[t].pc \in {"locked", "resolve", "release"} => CONFIG.lock = t
          /\ thr[t].pc = "resolve" => CONFIG._get_on_retry = "_init_on_first_retry"
          /\ thr[t].pc = "release" => CONFIG._get_on_retry = "lambda"
          /\ (thr[t].pc \in {"release", "unlocked"} /\ ~thr[t].stale)
                => /\ CONFIG._on_retry.some
                   /\ \A i \in 1..Len(CONFIG._on_retry.val) :
                         CONFIG._on_retry.val[i].kind = "hook"
          /\ (thr[t].pc = "returned" /\ ~thr[t].stale)
                => /\ thr[t].ret = CONFIG._on_retry
                   /\ \A i \in 1..Len(thr[t].ret.val) : thr[t].ret.val[i].kind = "hook"

\* C29 witness: two threads found the hooks of one registration unresolved
\* and called _init_on_first_retry; one has returned, the other holds the
\* lock after its test, and the two factories were called once each.
C29_Witness ==
    \E t \in Threads, u \in Threads :
        /\ t # u
        /\ thr[t].acc = "_init_on_first_retry" /\ thr[u].acc = "_init_on_first_retry"
        /\ ~thr[t].stale /\ ~thr[u].stale
        /\ thr[t].pc = "returned"
        /\ thr[u].pc = "release"
        /\ registration.hooks = Some(<< Factory("init"), Hook("hook"), Factory("init2") >>)
        /\ registration.calls = << 1, 3 >>
        /\ thr[t].ret = CONFIG._on_retry
\* The tenacity object a sequence begun under the configuration in seq_cfg
\* is to be driven by: built for that sequence from the policy, the active
\* flag and the testing override read when it began.
C30_FreshEngine ==
    IF seq_cfg.is_active
    THEN [ retry |-> policy.on,
           stop |-> IF seq_cfg.testing.on
                    THEN [attempts |-> Some(get_attempts(seq_cfg.testing, policy.attempts)),
                          delay |-> NoneVal]
                    ELSE [attempts |-> policy.attempts, delay |-> policy.timeout],
           hooks |-> TRUE, wait |-> TRUE, before |-> TRUE ]
    ELSE [ retry |-> DefaultRetry, stop |-> [attempts |-> Some(1), delay |-> NoneVal],
           hooks |-> FALSE, wait |-> FALSE, before |-> FALSE ]

\* C30: every use of a policy gets a fresh attempt sequence: it starts at
\* ordinal 1 with nothing waited, and it is driven by stop, retry, wait and
\* hook settings built from the active flag and the testing override
\* current when it began, with the wait accounting of its hooks starting
\* from 0; also when the policy object has been iterated before.
C30_FreshSequencePerUse ==
    pc \in {"body", "sleep", "done"}
        => /\ [ f \in {"retry", "stop", "hooks", "wait", "before"} |-> eng[f] ]
                 = C30_FreshEngine
           /\ Count("attempt") = rcs.attempt_number
           /\ eng.last_idle_for <= rcs.idle_for
           /\ (rcs.attempt_number = 1 /\ pc = "body")
                 => /\ rcs.idle_for = 0
                    /\ eng.last_idle_for = 0

\* -------------------------------------------------------------------- C31
\* C31: a hook that raises while the pipeline runs for a scheduled retry is
\* not contained: its exception is the outcome of the retrying call, it is the
\* last thing the sequence does (no later hook is invoked, no wait begins and
\* no further attempt is made), and the attempt count stays at the attempt
\* whose failure scheduled the retry.
C31_HookFailurePropagates ==
    \A k \in 1..Len(log) :
        IsHookRaise(log[k]) =>
            /\ k = Len(log)
            /\ pc = "done"
            /\ result = Raised([src |-> "hook", n |-> log[k].b, cls |-> "HookError"])
            /\ rcs.attempt_number = log[k].b
            /\ \A j \in 1..Len(log) :
                  /\ ~(log[j].t = "hook" /\ log[j].b = log[k].b /\ log[j].a > log[k].a)
                  /\ ~(log[j].t = "wait_begin" /\ log[j].a = log[k].b)
                  /\ ~(log[j].t = "attempt" /\ log[j].a > log[k].b)

\* The second of four registered hooks has raised at the first retry of a call.
C31_Witness ==
    /\ pc = "done"
    /\ log # <<>>
    /\ IsHookRaise(Last(log))
    /\ Last(log).a = 2
    /\ Last(log).b = 1
    /\ Len(on_retry) = 4
    /\ result.exc.src = "hook"

\* -------------------------------------------------------------------- C32
\* C32: with attempts=None and timeout=None (retries active, no testing
\* override when the sequence starts) the stop policy never stops: every
\* failure of a body that always raises a matching exception is followed by
\* the hooks and a wait, and the call has no outcome; with an attempts limit
\* the call of such a body always comes to an end.
C32_UnboundedNeverStops ==
    /\ [](( /\ ~policy.attempts.some
            /\ ~policy.timeout.some
            /\ seqno = 1
            /\ seq_cfg.is_active
            /\ ~seq_cfg.testing.on )
          => /\ pc # "done"
             /\ result = NoResult
             /\ \A k \in 1..Len(log) :
                   log[k].t = "exc" =>
                       /\ k < Len(log)
                       /\ log[k + 1].t = "details"
                       /\ log[k + 1].a = log[k].a
                       /\ \E j \in (k + 1)..Len(log) :
                             log[j].t = "wait_begin" /\ log[j].a = log[k].a)
    /\ (pc = "body" /\ policy.attempts.some) ~> (pc = "done")

\* A third attempt of a policy without limits, after two scheduled retries.
C32_Witness ==
    /\ ~policy.attempts.some
    /\ ~policy.timeout.some
    /\ seq_cfg.is_active
    /\ ~seq_cfg.testing.on
    /\ pc = "body"
    /\ rcs.attempt_number = 3
    /\ Count("wait_end") = 2

\* -------------------------------------------------------------------- C33
\* The next wait at its largest: the backoff after attempt n with the whole
\* jitter ceiling added.
C33_WorstCaseWait(n) ==
    _compute_backoff(n, policy.wait.wait_max, policy.wait.wait_initial,
                     policy.wait.wait_exp_base, policy.wait.wait_jitter,
                     policy.wait.wait_jitter)

\* C33: with a timeout D the stop policy stops after a failed attempt whenever
\* the time elapsed plus the worst-case next wait reaches D: a wait begins
\* only if it would end before D even at its largest.
C33_DeadlineCountsWorstCaseWait ==
    ( /\ seqno = 1
      /\ seq_cfg.is_active
      /\ ~seq_cfg.testing.on
      /\ ~testing.on
      /\ policy.timeout.some )
    => \A k \in 1..Len(log) :
          log[k].t = "wait_begin" =>
              \A j \in 1..k :
                  (log[j].t = "exc" /\ log[j].a = log[k].a) =>
                      log[j].b + C33_WorstCaseWait(log[k].a) < policy.timeout.val

\* -------------------------------------------------------------------- C34
\* C34: without a testing override, for every ordinal and all non-negative
\* wait parameters (wait_initial 0, wait_max 0 and wait_exp_base <= 1
\* included) _compute_backoff raises nothing and returns
\* min(wait_max, wait_initial * wait_exp_base^(n-1) + x), x being the jitter
\* drawn (0 when wait_jitter is 0).
C34_BackoffIsFormulaAndTotal ==
    (calc.call = "backoff" /\ ~testing.on)
        => /\ calc.raises = "none"
           /\ calc.jittered =
                 Min(policy.wait.wait_max,
                     policy.wait.wait_initial
                         * Pow(policy.wait.wait_exp_base, rcs.attempt_number - 1)
                     + (IF policy.wait.wait_jitter = 0 THEN 0 ELSE calc.draw))

\* -------------------------------------------------------------------- C35
\* C35: the scope handles awaiting exit are kept per call: a call of a
\* decorated function exits, ahead of its attempts, only handles its own hook
\* runs entered, never a handle another call of the same function entered.
C35_HandlesArePerCall ==
    usage = "func" =>
        \A k \in 1..Len(log) : log[k].t = "exit" => log[k].a = seqno

\* -------------------------------------------------------------------- C36
\* The Retrying object __iter__ builds for the configuration read when the
\* sequence began.
C36_SyncEngineFor ==
    IF ~seq_cfg.is_active THEN NoRetryEngine ELSE ActiveEngine(seq_cfg.testing)

\* C36: for the same policy, configuration and body outcomes an async
\* sequence takes the decisions a sync sequence takes: the same retry
\* predicate, stop policy, wait function, pre-attempt exit step and hook
\* pipeline drive it, and its hooks account the waits from 0, so that
\* attempts, RetryDetails, waits, exits and outcome are the same.
C36_AsyncLikeSync ==
    (mode = "async" /\ pc \in {"body", "sleep", "done"})
        => /\ [eng EXCEPT !.last_idle_for = 0] = C36_SyncEngineFor
           /\ (rcs.attempt_number = 1 /\ pc = "body") => eng.last_idle_for = 0
           /\ \A k \in 1..Len(log) : log[k].t = "details" => log[k].b >= 0

\* -------------------------------------------------------------------- C37
\* C37: whatever set_on_retry_hooks() calls of other threads a read of the
\* hook registry is interleaved with, the value it returns is a tuple of
\* resolved hooks: it is not None and holds no RetryHookFactory.
C37_ReadsAreResolved ==
    \A t \in Threads :
        thr[t].pc = "returned"
            => /\ thr[t].ret.some
               /\ \A i \in 1..Len(thr[t].ret.val) : thr[t].ret.val[i].kind = "hook"

\* -------------------------------------------------------------------- C38
\* C38: when a retrying call has ended, in whichever way (the body returned,
\* the failure was exhausted or not retryable, a hook raised, the wait was
\* interrupted), every scope handle its hook runs entered has been exited.
C38_NoHandleLeftEntered ==
    pc = "done" =>
        \A k \in 1..Len(log) :
            IsEnter(log[k]) =>
                \E x \in (k + 1)..Len(log) :
                    /\ log[x].t = "exit"
                    /\ log[x].a = log[k].a
                    /\ log[x].b = log[k].b
                    /\ log[x].c = log[k].c

\* -------------------------------------------------------------------- C39
\* C39: a sequence that starts while a testing override is set stops by the
\* attempt count alone: its stop policy has no timeout part and, with retries
\* active, it is stop-after-get_attempts(user attempts); a sequence started
\* active without the override has the stop policy the policy was built with.
C39_TestingStopByAttemptsAlone ==
    pc \in {"body", "sleep", "done"} =>
        /\ seq_cfg.testing.on
              => /\ ~eng.stop.delay.some
                 /\ eng.stop.attempts.some
                 /\ seq_cfg.is_active
                       => eng.stop.attempts.val
                             = get_attempts(seq_cfg.testing, policy.attempts)
        /\ (~seq_cfg.testing.on /\ seq_cfg.is_active)
              => eng.stop = _make_stop(policy.attempts, policy.timeout)

\* -------------------------------------------------------------------- C40
\* C40: the first resolution of the hooks cannot deadlock: a thread that is
\* not inside the `with self.lock` block does not hold the lock, also after
\* a factory raised, and a thread that has begun to resolve the hooks always
\* comes out of the read, with the hooks or with the exception of a factory,
\* also when a factory calls an accessor of the configuration.
C40_ResolutionCompletes ==
    /\ [](\A t \in Threads :
             thr[t].pc \in {"idle", "call", "unlocked", "returned", "raised"}
                 => CONFIG.lock # t)
    /\ \A t \in Threads :
          (thr[t].pc = "resolve") ~> (thr[t].pc \in {"returned", "raised"})

====
